---- MODULE Spec2Model ----
(***************************************************************************)
(* State-machine model of the voice conversation backend:                  *)
(*   backend/services/session_service.py   ConversationSession, registry   *)
(*   backend/database.py                   durable sessions table, guard   *)
(*   backend/services/elevenlabs_service.py  semaphores, retry, streaming  *)
(*   backend/main.py                       websocket_chat, handle_chat     *)
(* One action is one run of a coroutine between two suspension points      *)
(* (asyncio runs one coroutine at a time, so that code is atomic).         *)
(***************************************************************************)
EXTENDS Integers, Sequences, FiniteSets, TLC

\* ---------------------------------------------------------------- bounds
\* init messages the clients send, over all connections
MaxInits == 2
\* clients send init messages only while the session has at most this many turns
MaxInitTurn == 0
\* failures the remote services produce for the calls of an /api/chat request
MaxFaults == 3
\* failures the remote services and the store produce for websocket
\* connections, over all calls
MaxConnFaults == 3

\* words of a reply whose emotion is classified
MaxReplyWords == 2
\* failures of the calls the background tasks make
MaxTaskFaults == 2
\* turns before the final one whose background tasks the client does not
\* wait for before it speaks again
MaxPendingTurns == 1

\* ------------------------------------------------------ program constants
MAX_TURNS == 10
MAX_CONCURRENT_REQUESTS == 3
MAX_RETRIES == 3

\* ------------------------------------------------------------ identities
\* websocket connections (one handler coroutine each) and /api/chat requests
Conns == {<<"ws", 1>>, <<"ws", 2>>}
Reqs == {<<"req", 1>>, <<"req", 2>>, <<"req", 3>>, <<"req", 4>>}
Callers == Conns \cup Reqs
\* a session row written by an earlier run of the server
Legacy == <<"old", 0>>
SessionIds == Conns \cup {Legacy}

NoValue == "None"
Fingerprints == {"fpA", "fpB"}
Addresses == {"ip1", "ip2"}
Characters == {"jeongsu", "Subin"}
UnknownCharacter == "nobody"
Difficulties == {"beginner", "intermediate", "advanced"}
Capabilities == {"stt", "tts"}

\* the address and the persona each connection is opened with
ClientIp(w) == IF w[2] = 1 THEN "ip1" ELSE "ip2"
PersonaOf(w) == IF w[2] = 1 THEN "jeongsu" ELSE "Subin"

VARIABLES
    sessions,   \* SessionManager.sessions: session id -> ConversationSession
    wsmap,      \* SessionManager.websocket_to_session: the connection keys mapped
    durable,    \* the sessions table: session id -> row
    clock,      \* datetime.now(), as read by complete_session
    pc,         \* position of each websocket_chat coroutine
    term,       \* why a websocket_chat coroutine ended
    client,     \* the client side of each connection: "none", "open", "gone"
    fingerprint,\* websocket_chat's local variable fingerprint
    prevHist,   \* websocket_chat's local variable previous_history
    llmIn,      \* the message list of the last get_llm_response call
    sent,       \* the kinds of message delivered to each client, and whether
                \* a send_json on the connection has raised
    tasks,      \* the unfinished tasks each handler made with asyncio.create_task
    call,       \* the remote call each caller has in progress
    sem,        \* stt_semaphore._value and tts_semaphore._value
    rpc,        \* position of each handle_chat coroutine
    inits, faults   \* budget counters of the environment

vars == <<sessions, wsmap, durable, clock, pc, term, client, fingerprint,
          prevHist, llmIn, sent, tasks, call, sem, rpc, inits, faults>>

wsVars == <<sessions, wsmap, durable, clock, pc, term, client, fingerprint,
            prevHist, llmIn, sent, tasks, inits>>

\* ------------------------------------------------------------------ text
\* A text is a sequence of symbols; " " is a whitespace symbol.
Blank == " "
\* str.strip(): drop leading and trailing whitespace
RECURSIVE StripLeft(_)
StripLeft(t) == IF t # <<>> /\ Head(t) = Blank THEN StripLeft(Tail(t)) ELSE t
RECURSIVE StripRight(_)
StripRight(t) ==
    IF t # <<>> /\ t[Len(t)] = Blank THEN StripRight(SubSeq(t, 1, Len(t) - 1)) ELSE t
StripNothing(t) == t
Strip(t) == StripRight(StripLeft(t))

\* what the speech-to-text service can return for the k-th utterance
Transcripts(k) == {<<>>, <<Blank>>, <<"u", ToString(k)>>}
InitMessage(ch) == <<"hello", ch>>
ReplyText(k) == <<"a", ToString(k)>>

\* ------------------------------------------- main.py: emotion of a reply
\* A reply text is the sequence of its characters ("U+1F60A" stands for the
\* one character of the smiling-face emoji).
UpperCase == <<"A", "B", "C", "D", "E", "F", "G", "H", "I", "J", "K", "L", "M", "N", "O", "P", "Q", "R", "S", "T", "U", "V", "W", "X", "Y", "Z">>
LowerCase == <<"a", "b", "c", "d", "e", "f", "g", "h", "i", "j", "k", "l", "m", "n", "o", "p", "q", "r", "s", "t", "u", "v", "w", "x", "y", "z">>
\* str.lower(), one character: a capital letter becomes its small letter
LowerChar(c) ==
    IF \E i \in 1..Len(UpperCase) : UpperCase[i] = c
    THEN LowerCase[CHOOSE i \in 1..Len(UpperCase) : UpperCase[i] = c]
    ELSE c
\* text.lower()
Lower(t) == [i \in 1..Len(t) |-> LowerChar(t[i])]
\* word in text: word is a substring of text
Contains(t, word) ==
    \E i \in 1..(Len(t) - Len(word) + 1) : SubSeq(t, i, i + Len(word) - 1) = word
\* the keyword lists of analyze_emotion_from_text
ExcitedWords ==
    {<<"e", "x", "c", "i", "t", "e", "d">>,
     <<"t", "h", "r", "i", "l", "l", "e", "d">>,
     <<"c", "a", "n", "'", "t", " ", "w", "a", "i", "t">>,
     <<"a", "m", "a", "z", "i", "n", "g">>,
     <<"a", "w", "e", "s", "o", "m", "e">>,
     <<"f", "a", "n", "t", "a", "s", "t", "i", "c">>,
     <<"i", "n", "c", "r", "e", "d", "i", "b", "l", "e">>}
SurprisedWords ==
    {<<"w", "o", "w">>,
     <<"r", "e", "a", "l", "l", "y", "?">>,
     <<"s", "e", "r", "i", "o", "u", "s", "l", "y", "?">>,
     <<"n", "o", " ", "w", "a", "y">>,
     <<"o", "h", " ", "m", "y">>,
     <<"s", "u", "r", "p", "r", "i", "s", "e", "d">>,
     <<"s", "h", "o", "c", "k", "i", "n", "g">>,
     <<"u", "n", "b", "e", "l", "i", "e", "v", "a", "b", "l", "e">>}
ThoughtfulWords ==
    {<<"h", "m", "m">>,
     <<"l", "e", "t", " ", "m", "e", " ", "t", "h", "i", "n", "k">>,
     <<"i", "n", "t", "e", "r", "e", "s", "t", "i", "n", "g">>,
     <<"i", " ", "s", "e", "e">>,
     <<"t", "h", "a", "t", "'", "s", " ", "a", " ", "g", "o", "o", "d">>,
     <<"w", "o", "n", "d", "e", "r", "i", "n", "g">>,
     <<"c", "u", "r", "i", "o", "u", "s">>,
     <<"c", "o", "n", "s", "i", "d", "e", "r">>}
SmileWords ==
    {<<"h", "a", "p", "p", "y">>,
     <<"g", "l", "a", "d">>,
     <<"g", "r", "e", "a", "t">>,
     <<"g", "o", "o", "d">>,
     <<"n", "i", "c", "e">>,
     <<"w", "o", "n", "d", "e", "r", "f", "u", "l">>,
     <<"p", "l", "e", "a", "s", "e", "d">>,
     <<"h", "a", "h", "a">>,
     <<"l", "o", "l">>,
     <<"U+1F60A">>}
\* any(word in text_lower for word in words)
AnyWord(t, words) == \E word \in words : Contains(t, word)
analyze_emotion_smile_first(text) ==
    LET text_lower == Lower(text)
    IN  IF AnyWord(text_lower, SmileWords) THEN "smile"
        ELSE IF AnyWord(text_lower, ExcitedWords) THEN "excited"
        ELSE IF AnyWord(text_lower, SurprisedWords) THEN "surprised"
        ELSE IF AnyWord(text_lower, ThoughtfulWords) THEN "thoughtful"
        ELSE "neutral"
\* analyze_emotion_from_text(text)
analyze_emotion_from_text(text) ==
    LET text_lower == Lower(text)
    IN  IF AnyWord(text_lower, ExcitedWords) THEN "excited"
        ELSE IF AnyWord(text_lower, SurprisedWords) THEN "surprised"
        ELSE IF AnyWord(text_lower, ThoughtfulWords) THEN "thoughtful"
        ELSE IF AnyWord(text_lower, SmileWords) THEN "smile"
        ELSE "neutral"
\* the words the language model may put in a reply
ReplyWords ==
    {<<"A", "m", "a", "z", "i", "n", "g">>,
     <<"W", "O", "W">>,
     <<"i", " ", "s", "e", "e">>,
     <<"g", "o", "o", "d", "b", "y", "e">>,
     <<"n", "i", "c", "e">>,
     <<"o", "k", "a", "y">>}
\* the replies of at most n words, the words separated by one space
RECURSIVE RepliesOf(_)
RepliesOf(n) ==
    IF n = 0 THEN {<<>>}
    ELSE RepliesOf(n - 1) \cup
         {IF t = <<>> THEN word ELSE t \o <<Blank>> \o word :
              t \in RepliesOf(n - 1), word \in ReplyWords}
ReplyTexts == RepliesOf(MaxReplyWords)

\* ------------------------------------------------- ConversationSession
NoSession == [absent |-> TRUE]

NewSession(ch) ==
    [absent |-> FALSE,
     character_id |-> ch,
     turn_count |-> 0,
     conversation_history |-> <<>>,
     end_time |-> 0,
     is_completed |-> FALSE,
     feedback_items |-> <<>>,
     overall_assessment |-> NoValue,
     difficulty |-> NoValue]

add_message_in_front(s, speaker, text) ==
    [s EXCEPT !.conversation_history = <<[speaker |-> speaker, text |-> text]>> \o @,
              !.turn_count = IF speaker = "user" THEN @ + 1 ELSE @]

add_message_counts_all(s, speaker, text) ==
    [s EXCEPT !.conversation_history = Append(@, [speaker |-> speaker, text |-> text]),
              !.turn_count = @ + 1]

add_message(s, speaker, text) ==
    [s EXCEPT !.conversation_history = Append(@, [speaker |-> speaker, text |-> text]),
              !.turn_count = IF speaker = "user" THEN @ + 1 ELSE @]

\* ConversationSession.add_feedback_item
add_feedback_item(s, item) == [s EXCEPT !.feedback_items = Append(@, item)]

complete_session_without_end(s, now) == [s EXCEPT !.is_completed = TRUE]

\* complete_session reads the clock: now is the value it reads
complete_session(s, now) == [s EXCEPT !.is_completed = TRUE, !.end_time = now]

RECURSIVE CountUser(_)
CountUser(h) ==
    IF h = <<>> THEN 0
    ELSE (IF Head(h).speaker = "user" THEN 1 ELSE 0) + CountUser(Tail(h))

RECURSIVE UserEntries(_)
UserEntries(h) ==
    IF h = <<>> THEN <<>>
    ELSE (IF Head(h).speaker = "user" THEN <<Head(h)>> ELSE <<>>) \o UserEntries(Tail(h))


\* ------------------------------------------------------- Database (rows)
NoRow == [absent |-> TRUE]

\* bool(x) of an optional string: None and "" are falsy
Truthy(x) == x # NoValue /\ x # ""

\* INSERT INTO sessions ...: the other columns take their defaults.
\* ok = FALSE: the store raised, the method caught it and returned False.
db_create_session(tbl, sid, ch, ip, fp, ok) ==
    IF ok /\ tbl[sid].absent
    THEN [tbl EXCEPT ![sid] =
            [absent |-> FALSE, character_id |-> ch, user_ip |-> ip, fingerprint |-> fp,
             turn_count |-> 0, is_completed |-> FALSE, is_blocked |-> FALSE,
             conversation_history |-> NoValue, feedback_data |-> NoValue]]
    ELSE tbl

db_update_session_turn_skipped(tbl, sid, n, ok) == tbl

\* UPDATE sessions SET turn_count = n WHERE session_id = sid
db_update_session_turn(tbl, sid, n, ok) ==
    IF ok /\ ~tbl[sid].absent THEN [tbl EXCEPT ![sid].turn_count = n] ELSE tbl

\* UPDATE sessions SET fingerprint = fp WHERE session_id = sid  (main.py, init)
db_update_fingerprint(tbl, sid, fp, ok) ==
    IF ok /\ ~tbl[sid].absent THEN [tbl EXCEPT ![sid].fingerprint = fp] ELSE tbl

\* UPDATE sessions SET end_time, is_completed, is_blocked, conversation_history,
\* feedback_data WHERE session_id = sid
db_complete_session(tbl, sid, history, feedback, ok) ==
    IF ok /\ ~tbl[sid].absent
    THEN [tbl EXCEPT ![sid].is_completed = TRUE,
                     ![sid].is_blocked = TRUE,
                     ![sid].conversation_history = history,
                     ![sid].feedback_data = feedback]
    ELSE tbl

is_session_blocked(tbl, sid, ok) ==
    IF ok /\ ~tbl[sid].absent THEN tbl[sid].is_blocked ELSE FALSE

check_user_ever_completed_by_ip(tbl, ip, fp, ok) ==
    /\ ok
    /\ Truthy(fp)
    /\ \E sid \in DOMAIN tbl :
          /\ ~tbl[sid].absent
          /\ tbl[sid].fingerprint = fp
          /\ tbl[sid].user_ip = ip
          /\ tbl[sid].is_completed

check_user_ever_completed_fail_closed(tbl, ip, fp, ok) ==
    \/ ~ok
    \/ /\ Truthy(fp)
       /\ \E sid \in DOMAIN tbl :
             /\ ~tbl[sid].absent
             /\ tbl[sid].fingerprint = fp
             /\ tbl[sid].is_completed

\* TRUE: blocked.  The address ip is only printed.
check_user_ever_completed(tbl, ip, fp, ok) ==
    /\ ok
    /\ Truthy(fp)
    /\ \E sid \in DOMAIN tbl :
          /\ ~tbl[sid].absent
          /\ tbl[sid].fingerprint = fp
          /\ tbl[sid].is_completed

\* --------------------------------------------- elevenlabs_service: the gate
Outcomes == {"ok", "http429", "http503", "http401", "transport", "decode"}
\* httpx.HTTPStatusError, raised by response.raise_for_status()
IsStatusError(o) == o \in {"http429", "http503", "http401"}
\* the failures the specification calls transient
IsTransient(o) == o \in {"http429", "http503", "transport"}

NoCall == [kind |-> "none", st |-> "idle", attempt |-> 0, invoked |-> 0,
           acquired |-> 0, released |-> 0, err |-> "none", last |-> "none",
           result |-> <<>>, chunks |-> 0, slept |-> <<>>]

\* the semaphore a call of this kind goes through
CapOf(kind) == IF kind = "stt" THEN "stt" ELSE "tts"

\* the caller enters convert_speech_to_text / convert_text_to_speech /
\* convert_text_to_speech_websocket and reaches "async with <semaphore>"
StartCall(cl, c, kind) == [cl EXCEPT ![c] = [NoCall EXCEPT !.kind = kind, !.st = "waiting"]]

\* _retry_with_backoff: is the failure o of attempt number a (from 0) retried?
ShouldRetryOnceMore(o, a) ==
    /\ IsStatusError(o) => o \in {"http429", "http503"}
    /\ a < MAX_RETRIES

ShouldRetryNever(o, a) == FALSE

ShouldRetry(o, a) ==
    /\ IsStatusError(o) => o \in {"http429", "http503"}
    /\ a < MAX_RETRIES - 1

\* the delay before the next attempt, in units of INITIAL_RETRY_DELAY
RECURSIVE Pow2(_)
Pow2(n) == IF n = 0 THEN 1 ELSE 2 * Pow2(n - 1)
BackoffDelayFromTwo(a) == Pow2(a + 1)
\* delay = initial_delay * (2 ** attempt), attempt counted from 0
BackoffDelay(a) == Pow2(a)

\* what convert_speech_to_text / convert_text_to_speech raise for a failure o
Surface(o) == IF IsStatusError(o) THEN "wrapped" ELSE o

\* "async with semaphore" exit: release() adds one to _value
ReleaseNothing(s, cap) == s
Release(s, cap) == [s EXCEPT ![cap] = @ + 1]

AcquireAlways(s, cap) == TRUE
\* Semaphore.acquire() returns without waiting only when _value > 0
CanAcquire(s, cap) == s[cap] > 0

\* the failures the environment may still produce for caller c: under
\* /api/chat load the remote service fails the calls of the first request
FaultLimit(c) ==
    IF c \in Conns THEN MaxConnFaults
    ELSE IF c = <<"req", 1>> THEN MaxFaults ELSE 0

\* the transcripts the service may return to caller c
TranscriptChoices(c) ==
    IF c \in Conns /\ ~sessions[c].absent
    THEN Transcripts(sessions[c].turn_count + 1)
    ELSE {<<Blank>>, <<"u", "0">>}

\* async with stt_semaphore / tts_semaphore: enter
GateAcquire(c) ==
    /\ call[c].st = "waiting"
    /\ CanAcquire(sem, CapOf(call[c].kind))
    /\ sem' = [sem EXCEPT ![CapOf(call[c].kind)] = @ - 1]
    /\ call' = [call EXCEPT ![c].st = IF call[c].kind = "stream" THEN "opening" ELSE "running",
                            ![c].acquired = @ + 1,
                            ![c].invoked = @ + 1]
    /\ UNCHANGED <<wsVars, rpc, faults>>

\* one attempt of _call_stt_api / _call_tts_api returns or raises
AttemptReturns(c, o, t) ==
    /\ call[c].st = "running"
    /\ o # "ok" => faults < FaultLimit(c)
    /\ faults' = IF o = "ok" THEN faults ELSE faults + 1
    /\ IF o = "ok"
       THEN /\ call' = [call EXCEPT ![c].st = "ok", ![c].result = t,
                                    ![c].released = @ + 1]
            /\ sem' = Release(sem, CapOf(call[c].kind))
       ELSE IF ShouldRetry(o, call[c].attempt)
       THEN /\ call' = [call EXCEPT ![c].st = "sleeping", ![c].last = o,
                                    ![c].slept = Append(@, BackoffDelay(call[c].attempt))]
            /\ sem' = sem
       ELSE /\ call' = [call EXCEPT ![c].st = "fail", ![c].last = o,
                                    ![c].err = Surface(o), ![c].released = @ + 1]
            /\ sem' = Release(sem, CapOf(call[c].kind))
    /\ UNCHANGED <<wsVars, rpc>>

\* asyncio.sleep(delay) is over: the loop goes to the next attempt
BackoffElapsed(c) ==
    /\ call[c].st = "sleeping"
    /\ call' = [call EXCEPT ![c].st = "running", ![c].last = "none",
                            ![c].attempt = @ + 1, ![c].invoked = @ + 1]
    /\ UNCHANGED <<wsVars, rpc, sem, faults>>

\* convert_text_to_speech_websocket: response.raise_for_status()
StreamOpens(c, o) ==
    /\ call[c].st = "opening"
    /\ o \in {"ok", "http429", "http503", "http401", "transport"}
    /\ o # "ok" => faults < FaultLimit(c)
    /\ faults' = IF o = "ok" THEN faults ELSE faults + 1
    /\ IF o = "ok"
       THEN /\ call' = [call EXCEPT ![c].st = "streaming"]
            /\ sem' = sem
       ELSE /\ call' = [call EXCEPT ![c].st = "fail", ![c].last = o, ![c].err = o,
                                    ![c].released = @ + 1]
            /\ sem' = Release(sem, "tts")
    /\ UNCHANGED <<wsVars, rpc>>

\* the response body ends: the generator returns
StreamEnds(c) ==
    /\ call[c].st = "streaming"
    /\ call' = [call EXCEPT ![c].st = "ok", ![c].released = @ + 1]
    /\ sem' = Release(sem, "tts")
    /\ UNCHANGED <<wsVars, rpc, faults>>

\* the transport fails while the body is read
StreamBreaks(c) ==
    /\ call[c].st = "streaming"
    /\ faults < FaultLimit(c)
    /\ faults' = faults + 1
    /\ call' = [call EXCEPT ![c].st = "fail", ![c].last = "transport", ![c].err = "transport",
                            ![c].released = @ + 1]
    /\ sem' = Release(sem, "tts")
    /\ UNCHANGED <<wsVars, rpc>>

\* the consumer left the "async for" with the generator suspended at its
\* yield: the event loop's asynchronous-generator finalizer runs aclose(),
\* GeneratorExit unwinds the "async with"
StreamFinalized(c) ==
    /\ call[c].st = "abandoned"
    /\ call' = [call EXCEPT ![c].st = "closed", ![c].released = @ + 1]
    /\ sem' = Release(sem, "tts")
    /\ UNCHANGED <<wsVars, rpc, faults>>

\* ------------------------------------------------------- SessionManager
\* create_session(character_id, websocket_id), then main.py sets difficulty
create_session(ss, w, ch) ==
    [ss EXCEPT ![w] = [NewSession(ch) EXCEPT !.difficulty = "intermediate"]]

remove_session_keeps_open(ss, map, w, now) == ss

\* remove_session(websocket_id): the session stays in the registry, completed
remove_session(ss, map, w, now) ==
    IF w \in map /\ ~ss[w].absent /\ ~ss[w].is_completed
    THEN [ss EXCEPT ![w] = complete_session(@, now)]
    ELSE ss

\* ------------------------------------------ main.py: websocket_chat helpers
is_final_turn_late(s) == s.turn_count > MAX_TURNS

\* is_final_turn = session.turn_count >= MAX_TURNS
is_final_turn(s) == s.turn_count >= MAX_TURNS

\* the notices whose delivery is remembered for good
Notices == {"connected", "blocked", "session_completed"}

\* send_json of the kinds in ks, one after the other (a send on a connection
\* whose client is gone raises: the callers test client[w] first)
Deliver(w, ks) ==
    [sent EXCEPT ![w].last = ks[Len(ks)],
                 ![w].notices = @ \cup ({ks[i] : i \in 1..Len(ks)} \cap Notices)]

\* the messages of type "error", told apart by their text
ErrorNotices == {"error: character not found", "error: session over",
                 "error: no audio", "error: not heard", "error: unknown type",
                 "error: server"}

\* the "type" field of a message sent to the client
TypeOf(k) == IF k \in ErrorNotices THEN "error" ELSE k

AcknowledgeAsError(m) == "error: unknown type"

\* the answer to a message that starts no turn: pong to a ping, an error to
\* an audio message without payload and to a message of any other type
Acknowledge(m) ==
    IF m.type = "ping" THEN "pong"
    ELSE IF m.type = "audio" THEN "error: no audio"
    ELSE "error: unknown type"

\* no session_completed message has been sent
NoNotice == [type |-> "none", session_id |-> <<"none", 0>>, turn_count |-> 0]

CompletionNoticeNever(s, sid) == <<>>

\* on the final turn: send_json of session_completed with the session's id
\* and turn count
CompletionNotice(s, sid) ==
    IF is_final_turn(s)
    THEN <<[type |-> "session_completed", session_id |-> sid, turn_count |-> s.turn_count]>>
    ELSE <<>>

LlmMessagesOfWholeHistory(prompt, history, user_text) ==
    <<[role |-> "system", content |-> prompt]>>
    \o [i \in 1..Len(history) |->
          [role |-> IF history[i].speaker = "user" THEN "user" ELSE "assistant",
           content |-> history[i].text]]
    \o <<[role |-> "user", content |-> user_text], [role |-> "user", content |-> user_text]>>

\* get_llm_response builds: system prompt, the history given, the utterance
LlmMessages(prompt, history, user_text) ==
    <<[role |-> "system", content |-> prompt]>>
    \o [i \in 1..Len(history) |->
          [role |-> IF history[i].speaker = "user" THEN "user" ELSE "assistant",
           content |-> history[i].text]]
    \o <<[role |-> "user", content |-> user_text]>>

\* apply_difficulty_to_prompt, plus the closing instruction on the final turn
Prompt(ch, difficulty, final) ==
    <<"prompt", ch, difficulty>> \o (IF final THEN <<"closing">> ELSE <<>>)

LeaveKeepsReceiving(w, ss, why) ==
    /\ sessions' = remove_session(ss, wsmap, w, clock + 1)
    /\ wsmap' = wsmap \ {w}
    /\ clock' = clock + 1
    /\ pc' = [pc EXCEPT ![w] = "recv"]
    /\ term' = [term EXCEPT ![w] = why]

\* the handler leaves the loop: "finally" retires the session.  ss is the
\* registry as the handler leaves it.
Leave(w, ss, why) ==
    /\ sessions' = remove_session(ss, wsmap, w, clock + 1)
    /\ wsmap' = wsmap \ {w}
    /\ clock' = clock + 1
    /\ pc' = [pc EXCEPT ![w] = "done"]
    /\ term' = [term EXCEPT ![w] = why]

\* send_json on a connection whose client is gone, or that the handler has
\* closed, raises: nothing is delivered
Refuse(w) == [sent EXCEPT ![w].refused = TRUE]

\* "except Exception": send_json of the error, which the client gets if it
\* is there, close, retire
Raise(w, ss) ==
    /\ Leave(w, ss, "error")
    /\ sent' = IF client[w] = "open" THEN Deliver(w, <<"error: server">>) ELSE Refuse(w)

\* --------------------------------------- main.py: the background tasks
\* asyncio.create_task(feedback_service.evaluate_user_message_realtime(user_text));
\* result is the optional value the task returns: <<>> is None, <<x>> is x
EvaluationTask(k, user_text) ==
    [kind |-> "evaluate", turn |-> k, st |-> "running", text |-> user_text,
     result |-> <<>>, arg |-> <<>>]

\* a task of another kind, made at the end of turn k
TurnTask(kind, k) ==
    [kind |-> kind, turn |-> k, st |-> "running", text |-> <<>>, result |-> <<>>,
     arg |-> <<>>]

is_second_to_last_turn_is_last(s) == s.turn_count = MAX_TURNS

\* is_second_to_last_turn = session.turn_count == (MAX_TURNS - 1)
is_second_to_last_turn(s) == s.turn_count = MAX_TURNS - 1

\* the evaluation task of turn k among the tasks ts, if it has finished
FinishedEvaluation(ts, k) ==
    {t \in ts : t.kind = "evaluate" /\ t.turn = k /\ t.st # "running"}

\* The tasks made at the end of a turn start, in the order of their creation,
\* when the handler next suspends, before any other task goes on.
\* save_evaluation goes through "await evaluation_task" at once when that
\* task has finished: the session as save_evaluation then leaves it
SavedAtOnce(s, ts) ==
    LET done == FinishedEvaluation(ts, s.turn_count)
    IN  IF \E e \in done : e.result # <<>>
        THEN add_feedback_item(s, (CHOOSE e \in done : TRUE).result[1])
        ELSE s

\* generate_overall_assessment(session.feedback_items) builds its prompt from
\* the items the session has when the task starts (arg), then awaits the model
AssessmentTask(k, feedback_items) ==
    [TurnTask("assess", k) EXCEPT !.arg = feedback_items]

\* after audio_stream_end: create_task of generate_and_send_suggestions, of
\* save_evaluation and, on the turn before the last, of
\* generate_and_save_overall_assessment.  The tasks of the connection once
\* the new ones have started.
EndOfTurnTasks(s, ts) ==
    LET done == FinishedEvaluation(ts, s.turn_count)
    IN  (ts \ done)
        \cup {TurnTask("suggest", s.turn_count)}
        \cup (IF done = {} THEN {TurnTask("save", s.turn_count)} ELSE {})
        \cup (IF is_second_to_last_turn(s)
              THEN {AssessmentTask(s.turn_count, SavedAtOnce(s, ts).feedback_items)}
              ELSE {})

\* ------------------------------------------------ main.py: websocket_chat
\* accept, coarse check, create the session, look the persona up, greet.
\* created: "stored" / "failed" (db.create_session returned True / False),
\* "raised" (the call itself raised: it passes the keyword difficulty, which
\* the signature of Database.create_session in database.py does not take;
\* the call is outside the handler's try).
Connect(w, ch, created) ==
    /\ pc[w] = "idle"
    /\ \A v \in Conns : v[2] < w[2] => pc[v] # "idle"
    /\ created = "failed" => faults < MaxConnFaults
    /\ faults' = IF created = "failed" THEN faults + 1 ELSE faults
    /\ client' = [client EXCEPT ![w] = "open"]
    /\ IF check_user_ever_completed(durable, ClientIp(w), NoValue, TRUE)
       THEN /\ sent' = Deliver(w, <<"blocked">>)
            /\ pc' = [pc EXCEPT ![w] = "done"]
            /\ term' = [term EXCEPT ![w] = "blocked"]
            /\ UNCHANGED <<sessions, wsmap, durable, clock>>
       ELSE IF created = "raised"
       THEN /\ sessions' = create_session(sessions, w, ch)
            /\ wsmap' = wsmap \cup {w}
            /\ pc' = [pc EXCEPT ![w] = "crashed"]
            /\ term' = [term EXCEPT ![w] = "create"]
            /\ UNCHANGED <<durable, clock, sent>>
       ELSE /\ durable' = db_create_session(durable, w, ch, ClientIp(w), NoValue,
                                             created = "stored")
            /\ IF ch \notin Characters
               THEN /\ sessions' = remove_session(create_session(sessions, w, ch),
                                                  wsmap \cup {w}, w, clock + 1)
                    /\ wsmap' = wsmap \ {w}
                    /\ clock' = clock + 1
                    /\ sent' = Deliver(w, <<"error: character not found">>)
                    /\ pc' = [pc EXCEPT ![w] = "done"]
                    /\ term' = [term EXCEPT ![w] = "character"]
               ELSE /\ sessions' = create_session(sessions, w, ch)
                    /\ wsmap' = wsmap \cup {w}
                    /\ sent' = Deliver(w, <<"connected">>)
                    /\ pc' = [pc EXCEPT ![w] = "recv"]
                    /\ UNCHANGED <<clock, term>>
    /\ UNCHANGED <<fingerprint, prevHist, llmIn, tasks, call, sem, rpc, inits>>

\* the client goes away (the handler learns it at its next receive or send)
ClientDrops(w) ==
    /\ client[w] = "open"
    /\ pc[w] \notin {"idle", "done", "crashed"}
    /\ client' = [client EXCEPT ![w] = "gone"]
    /\ UNCHANGED <<sessions, wsmap, durable, clock, pc, term, fingerprint, prevHist,
                   llmIn, sent, tasks, call, sem, rpc, inits, faults>>

\* receive_json raises WebSocketDisconnect
SeesDisconnect(w) ==
    /\ pc[w] = "recv"
    /\ client[w] = "gone"
    /\ Leave(w, sessions, "disconnect")
    /\ UNCHANGED <<durable, client, fingerprint, prevHist, llmIn, sent, tasks, call, sem,
                   rpc, inits, faults>>

\* the messages a client may send
InitMessages ==
    [type : {"init"}, fingerprint : Fingerprints \cup {NoValue},
     difficulty : {NoValue, "beginner", "advanced", "expert"}, audio : {FALSE}]
AudioMessages == [type : {"audio"}, fingerprint : {NoValue}, difficulty : {NoValue},
                  audio : BOOLEAN]
OtherMessages == [type : {"ping", "hello"}, fingerprint : {NoValue},
                  difficulty : {NoValue}, audio : {FALSE}]

\* every message: the loop first asks the store whether the session is blocked
BlockedSession(w) ==
    /\ Leave(w, sessions, "session_blocked")
    /\ sent' = Deliver(w, <<"error: session over">>)
    /\ UNCHANGED <<durable, fingerprint, prevHist, llmIn, call>>

\* an init message.  looked / stored: the guard's lookup and the UPDATE of
\* the fingerprint column succeed.
ReceiveInit(w, m, looked, stored) ==
    /\ pc[w] = "recv" /\ client[w] = "open"
    /\ m \in InitMessages
    /\ inits < MaxInits
    /\ sessions[w].turn_count <= MaxInitTurn
    /\ inits' = inits + 1
    /\ (~looked \/ ~stored) => faults < MaxConnFaults
    /\ faults' = IF looked /\ stored THEN faults ELSE faults + 1
    /\ IF is_session_blocked(durable, w, TRUE)
       THEN BlockedSession(w)
       ELSE LET first == Truthy(m.fingerprint) /\ ~Truthy(fingerprint[w])
                valid == Truthy(m.difficulty) /\ m.difficulty \in Difficulties
            IN  /\ fingerprint' = IF first THEN [fingerprint EXCEPT ![w] = m.fingerprint]
                                   ELSE fingerprint
                /\ IF first /\ check_user_ever_completed(durable, ClientIp(w),
                                                          m.fingerprint, looked)
                   THEN /\ Leave(w, sessions, "blocked")
                        /\ sent' = Deliver(w, <<"blocked">>)
                        /\ UNCHANGED <<durable, call>>
                   ELSE /\ durable' = IF first
                                       THEN db_update_fingerprint(durable, w, m.fingerprint, stored)
                                       ELSE durable
                        /\ IF valid
                           THEN /\ sessions' =
                                     [sessions EXCEPT ![w] =
                                        add_message([@ EXCEPT !.difficulty = m.difficulty],
                                                    "ai", InitMessage(@.character_id))]
                                /\ sent' = [Deliver(w, <<"suggested_responses", "character_image",
                                                        "init_audio_stream_start">>)
                                              EXCEPT ![w].image = "neutral"]
                                /\ call' = StartCall(call, w, "stream")
                                /\ pc' = [pc EXCEPT ![w] = "init_tts"]
                           ELSE UNCHANGED <<sessions, sent, call, pc>>
                        /\ UNCHANGED <<wsmap, clock, term>>
                /\ UNCHANGED <<prevHist, llmIn>>
    /\ UNCHANGED <<client, tasks, sem, rpc>>

\* an audio message with a payload: transcription starts
ReceiveAudio(w) ==
    /\ pc[w] = "recv" /\ client[w] = "open"
    /\ IF is_session_blocked(durable, w, TRUE)
       THEN /\ BlockedSession(w)
       ELSE /\ sent' = Deliver(w, <<"status">>)
            /\ call' = StartCall(call, w, "stt")
            /\ pc' = [pc EXCEPT ![w] = "stt"]
            /\ UNCHANGED <<sessions, wsmap, durable, clock, term, fingerprint, prevHist, llmIn>>
    /\ UNCHANGED <<client, tasks, sem, rpc, inits, faults>>

\* ping, a message of another type, or an audio message without payload
ReceiveOther(w, m) ==
    /\ pc[w] = "recv" /\ client[w] = "open"
    /\ m \in OtherMessages \cup {a \in AudioMessages : ~a.audio}
    /\ IF is_session_blocked(durable, w, TRUE)
       THEN /\ BlockedSession(w)
       ELSE /\ sent' = Deliver(w, <<Acknowledge(m)>>)
            /\ UNCHANGED <<sessions, wsmap, durable, clock, pc, term, fingerprint,
                           prevHist, llmIn, call>>
    /\ UNCHANGED <<client, tasks, sem, rpc, inits, faults>>

\* convert_speech_to_text returned or raised
Transcribed(w, stored) ==
    /\ pc[w] = "stt"
    /\ call[w].st \in {"ok", "fail"}
    /\ ~stored => faults < MaxConnFaults
    /\ faults' = IF stored THEN faults ELSE faults + 1
    /\ call' = [call EXCEPT ![w] = NoCall]
    /\ IF call[w].st = "fail" \/ client[w] # "open"
       THEN /\ Raise(w, sessions)
            /\ UNCHANGED <<durable, prevHist>>
       ELSE IF Strip(call[w].result) = <<>>
       THEN /\ sent' = Deliver(w, <<"error: not heard">>)
            /\ pc' = [pc EXCEPT ![w] = "recv"]
            /\ UNCHANGED <<sessions, wsmap, durable, clock, term, prevHist>>
       ELSE /\ sent' = Deliver(w, <<"stt_result", "status">>)
            /\ prevHist' = [prevHist EXCEPT ![w] = sessions[w].conversation_history]
            /\ sessions' = [sessions EXCEPT ![w] = add_message(@, "user", call[w].result)]
            /\ durable' = db_update_session_turn(durable, w, sessions'[w].turn_count, stored)
            /\ pc' = [pc EXCEPT ![w] = "recorded"]
            /\ UNCHANGED <<wsmap, clock, term>>
    /\ UNCHANGED <<client, fingerprint, llmIn, tasks, sem, rpc, inits>>

\* the turn count goes to the client; the evaluation of the utterance is
\* started in the background; on the final turn the session is completed, in
\* memory and in the store; get_llm_response is called
Recorded(w, stored) ==
    /\ pc[w] = "recorded"
    /\ ~stored => faults < MaxConnFaults
    /\ faults' = IF stored THEN faults ELSE faults + 1
    /\ IF client[w] # "open"
       THEN /\ Raise(w, sessions)
            /\ UNCHANGED <<durable, llmIn, tasks>>
       ELSE LET s == sessions[w]
                final == is_final_turn(s)
                h == s.conversation_history
            IN  /\ sent' = Deliver(w, <<"turn_count_update", "status">>)
                /\ tasks' = [tasks EXCEPT ![w] =
                                @ \cup {EvaluationTask(s.turn_count, h[Len(h)].text)}]
                /\ IF final
                   THEN /\ sessions' = [sessions EXCEPT ![w] = complete_session(@, clock + 1)]
                        /\ clock' = clock + 1
                        /\ durable' = db_complete_session(durable, w, h,
                                          [feedback_items |-> s.feedback_items,
                                           overall_assessment |-> s.overall_assessment],
                                          stored)
                   ELSE UNCHANGED <<sessions, clock, durable>>
                /\ llmIn' = [llmIn EXCEPT ![w] =
                                LlmMessages(Prompt(s.character_id, s.difficulty, final),
                                            prevHist[w], h[Len(h)].text)]
                /\ pc' = [pc EXCEPT ![w] = "llm"]
                /\ UNCHANGED <<wsmap, term>>
    /\ UNCHANGED <<client, fingerprint, prevHist, call, sem, rpc, inits>>

\* get_llm_response returned text or raised; the reply is recorded, its
\* emotion picks the image sent with it
Replied(w, ok, text) ==
    /\ pc[w] = "llm"
    /\ ~ok => faults < MaxConnFaults
    /\ faults' = IF ok THEN faults ELSE faults + 1
    /\ IF ~ok
       THEN /\ Raise(w, sessions)
            /\ call' = call
       ELSE LET s == sessions[w]
                final == is_final_turn(s)
                replied == [sessions EXCEPT ![w] = add_message(@, "ai", text)]
            IN  IF client[w] # "open"
                THEN /\ Raise(w, replied)
                     /\ call' = call
                ELSE /\ sessions' = replied
                     /\ sent' = LET note == CompletionNotice(s, w)
                                     told == Deliver(w, <<"llm_result", "character_image", "status">>
                                                        \o [i \in 1..Len(note) |-> note[i].type]
                                                        \o <<"audio_stream_start">>)
                                     shown == [told EXCEPT ![w].image =
                                                  analyze_emotion_from_text(text)]
                                 IN  IF note = <<>> THEN shown
                                     ELSE [shown EXCEPT ![w].completed = note[1]]
                     /\ call' = StartCall(call, w, "stream")
                     /\ pc' = [pc EXCEPT ![w] = "tts"]
                     /\ UNCHANGED <<wsmap, clock, term>>
    /\ UNCHANGED <<durable, client, fingerprint, prevHist, llmIn, tasks, sem, rpc, inits>>

\* the generator yields a chunk and the loop body sends it (any number of
\* chunks: the call remembers that one was sent)
StreamChunk(w) ==
    /\ pc[w] \in {"tts", "init_tts"}
    /\ call[w].st = "streaming"
    /\ IF client[w] = "open"
       THEN /\ sent' = Deliver(w, <<"audio_chunk">>)
            /\ call' = [call EXCEPT ![w].chunks = 1]
            /\ UNCHANGED <<sessions, wsmap, clock, pc, term>>
       ELSE /\ Raise(w, sessions)
            /\ call' = [call EXCEPT ![w].st = "abandoned"]
    /\ UNCHANGED <<durable, client, fingerprint, prevHist, llmIn, tasks, sem, rpc, inits,
                   faults>>

\* the stream is over (or the generator raised): end of the turn.  After a
\* reply the handler makes the background tasks of the turn, which start as
\* it suspends; after the final reply it sleeps 0.2 s before it leaves the loop.
Streamed(w) ==
    /\ pc[w] \in {"tts", "init_tts"}
    /\ call[w].st \in {"ok", "fail"}
    /\ call' = [call EXCEPT ![w] = NoCall]
    /\ IF call[w].st = "fail" \/ client[w] # "open"
       THEN /\ Raise(w, sessions)
            /\ tasks' = tasks
       ELSE /\ sent' = Deliver(w, <<"audio_stream_end">>)
            /\ tasks' = IF pc[w] = "tts"
                         THEN [tasks EXCEPT ![w] = EndOfTurnTasks(sessions[w], @)]
                         ELSE tasks
            /\ sessions' = IF pc[w] = "tts"
                            THEN [sessions EXCEPT ![w] = SavedAtOnce(@, tasks[w])]
                            ELSE sessions
            /\ pc' = [pc EXCEPT ![w] = IF pc[w] = "tts" /\ is_final_turn(sessions[w])
                                         THEN "linger" ELSE "recv"]
            /\ UNCHANGED <<wsmap, clock, term>>
    /\ UNCHANGED <<durable, client, fingerprint, prevHist, llmIn, sem, rpc, inits, faults>>

\* asyncio.sleep(0.2) is over: break, and "finally" retires the session
Lingered(w) ==
    /\ pc[w] = "linger"
    /\ Leave(w, sessions, "final")
    /\ UNCHANGED <<durable, client, fingerprint, prevHist, llmIn, sent, tasks, call, sem,
                   rpc, inits, faults>>

\* ------------------------------- main.py: the steps of the background tasks
EvaluationOutcomes == {"issues", "perfect", "failed"}

\* evaluate_user_message_realtime: the evaluation when it has issues, None
\* when it has none and None when the call or the parsing raised
evaluate_user_message_realtime(user_text, outcome) ==
    IF outcome = "issues" THEN <<[user_sentence |-> user_text]>> ELSE <<>>

generate_overall_assessment_or_nothing(prompted, feedback_items, ok) ==
    IF ok THEN "assessment of " \o ToString(Len(prompted)) ELSE NoValue

\* generate_overall_assessment: the model's assessment of the items its
\* prompt listed (prompted), or, when the call or the parsing raised, the
\* default assessment the except branch builds from the list as it then is
\* (the scores are 100 less ten for each item with an issue)
generate_overall_assessment(prompted, feedback_items, ok) ==
    IF ok THEN "assessment of " \o ToString(Len(prompted))
    ELSE "default assessment of " \o ToString(Len(feedback_items))

\* the utterances in which the evaluation, when it answers, finds an issue:
\* the user speaks without a flaw until the last two turns
FlawedUtterances ==
    {<<"u", ToString(MAX_TURNS - 1)>>, <<"u", ToString(MAX_TURNS)>>}

\* the turns of connection w that have an unfinished task
PendingTurns(w) == {t.turn : t \in tasks[w]}

\* the websocket of connection w still takes a send_json
CanSend(w) == client[w] = "open" /\ pc[w] \notin {"done", "crashed"}

TaskSendReportsFailure(w, kind) ==
    IF CanSend(w) THEN Deliver(w, <<kind>>) ELSE Deliver(w, <<"error: server">>)

\* send_json inside a task's try: a failed send is caught and printed
TaskSend(w, kind) == IF CanSend(w) THEN Deliver(w, <<kind>>) ELSE Refuse(w)

\* the evaluation task of turn k finishes
EvaluationReturns(w, k, outcome) ==
    /\ outcome \in EvaluationOutcomes
    /\ \E t \in tasks[w] : t.kind = "evaluate" /\ t.turn = k /\ t.st = "running"
    /\ outcome = "failed" => faults < MaxTaskFaults
    /\ \A t \in tasks[w] :
          (t.kind = "evaluate" /\ t.turn = k) =>
              /\ outcome = "issues" => t.text \in FlawedUtterances
              /\ outcome = "perfect" => t.text \notin FlawedUtterances
    /\ faults' = IF outcome = "failed" THEN faults + 1 ELSE faults
    /\ \E t \in tasks[w] :
          /\ t.kind = "evaluate" /\ t.turn = k /\ t.st = "running"
          /\ tasks' = [tasks EXCEPT ![w] =
                          (@ \ {t}) \cup
                          {[t EXCEPT !.st = IF outcome = "failed" THEN "failed" ELSE "done",
                                     !.result = evaluate_user_message_realtime(t.text, outcome)]}]
    /\ UNCHANGED <<sessions, wsmap, durable, clock, pc, term, client, fingerprint, prevHist,
                   llmIn, sent, call, sem, rpc, inits>>

\* save_evaluation of turn k: "await evaluation_task" returns, the result,
\* if any, is added to the session's feedback items
save_evaluation(w, k) ==
    /\ \E e \in tasks[w], t \in tasks[w] :
          /\ e.kind = "evaluate" /\ e.turn = k /\ e.st # "running"
          /\ t.kind = "save" /\ t.turn = k
          /\ sessions' = IF e.result # <<>>
                          THEN [sessions EXCEPT ![w] = add_feedback_item(@, e.result[1])]
                          ELSE sessions
          /\ tasks' = [tasks EXCEPT ![w] = @ \ {e, t}]
    /\ UNCHANGED <<wsmap, durable, clock, pc, term, client, fingerprint, prevHist, llmIn,
                   sent, call, sem, rpc, inits, faults>>

\* generate_and_send_suggestions of turn k: generate_suggested_responses
\* returns the model's suggestions, or the default ones when the call
\* raised; they are sent if the websocket still takes them
generate_and_send_suggestions(w, k, ok) ==
    /\ ~ok => faults < MaxTaskFaults
    /\ faults' = IF ok THEN faults ELSE faults + 1
    /\ \E t \in tasks[w] :
          /\ t.kind = "suggest" /\ t.turn = k
          /\ tasks' = [tasks EXCEPT ![w] = @ \ {t}]
    /\ sent' = TaskSend(w, "suggested_responses")
    /\ UNCHANGED <<sessions, wsmap, durable, clock, pc, term, client, fingerprint, prevHist,
                   llmIn, call, sem, rpc, inits>>

\* generate_and_save_overall_assessment: the model answers or the call
\* raises; the assessment is stored in the session
generate_and_save_overall_assessment(w, ok) ==
    /\ \E t \in tasks[w] : t.kind = "assess"
    /\ ~ok => faults < MaxTaskFaults
    /\ faults' = IF ok THEN faults ELSE faults + 1
    /\ \E t \in tasks[w] :
          /\ t.kind = "assess"
          /\ tasks' = [tasks EXCEPT ![w] = @ \ {t}]
    /\ \E t \in tasks[w] :
          /\ t.kind = "assess"
          /\ sessions' = [sessions EXCEPT ![w].overall_assessment =
                              generate_overall_assessment(t.arg, sessions[w].feedback_items, ok)]
    /\ UNCHANGED <<wsmap, durable, clock, pc, term, client, fingerprint, prevHist, llmIn,
                   sent, call, sem, rpc, inits>>

\* a step of a background task of connection w
TaskStep(w) ==
    \/ \E k \in 1..MAX_TURNS, outcome \in EvaluationOutcomes : EvaluationReturns(w, k, outcome)
    \/ \E k \in 1..MAX_TURNS : save_evaluation(w, k)
    \/ \E k \in 1..MAX_TURNS, ok \in BOOLEAN : generate_and_send_suggestions(w, k, ok)
    \/ \E ok \in BOOLEAN : generate_and_save_overall_assessment(w, ok)

\* ------------------------------------------------- main.py: POST /api/chat
\* handle_chat: character lookup, then convert_speech_to_text
ChatStart(r, ch) ==
    /\ rpc[r] = "idle"
    /\ \A q \in Reqs : q[2] < r[2] => rpc[q] # "idle"
    /\ IF ch \in Characters
       THEN /\ rpc' = [rpc EXCEPT ![r] = "stt"]
            /\ call' = StartCall(call, r, "stt")
       ELSE /\ rpc' = [rpc EXCEPT ![r] = "failed"]
            /\ call' = call
    /\ UNCHANGED <<wsVars, sem, faults>>

\* the transcript is back: blank -> synthesize the apology, else ask the model
ChatTranscribed(r) ==
    /\ rpc[r] = "stt"
    /\ call[r].st \in {"ok", "fail"}
    /\ IF call[r].st = "fail"
       THEN /\ rpc' = [rpc EXCEPT ![r] = "failed"]
            /\ call' = [call EXCEPT ![r] = NoCall]
       ELSE IF Strip(call[r].result) = <<>>
       THEN /\ rpc' = [rpc EXCEPT ![r] = "tts"]
            /\ call' = StartCall(call, r, "tts")
       ELSE /\ rpc' = [rpc EXCEPT ![r] = "llm"]
            /\ call' = [call EXCEPT ![r] = NoCall]
    /\ UNCHANGED <<wsVars, sem, faults>>

\* get_llm_response returns or raises
ChatReplied(r, ok) ==
    /\ rpc[r] = "llm"
    /\ ~ok => faults < MaxFaults
    /\ faults' = IF ok THEN faults ELSE faults + 1
    /\ IF ok
       THEN /\ rpc' = [rpc EXCEPT ![r] = "tts"]
            /\ call' = StartCall(call, r, "tts")
       ELSE /\ rpc' = [rpc EXCEPT ![r] = "failed"]
            /\ call' = call
    /\ UNCHANGED <<wsVars, sem>>

\* convert_text_to_speech returned or raised: ChatResponse or HTTP 500
ChatSynthesized(r) ==
    /\ rpc[r] = "tts"
    /\ call[r].st \in {"ok", "fail"}
    /\ rpc' = [rpc EXCEPT ![r] = IF call[r].st = "ok" THEN "answered" ELSE "failed"]
    /\ call' = [call EXCEPT ![r] = NoCall]
    /\ UNCHANGED <<wsVars, sem, faults>>

\* ------------------------------------------------------------ initial state
Init ==
    /\ sessions = [sid \in SessionIds |-> NoSession]
    /\ wsmap = {}
    /\ durable =
          [sid \in SessionIds |->
             IF sid = Legacy
             THEN [absent |-> FALSE, character_id |-> "jeongsu", user_ip |-> "ip2",
                   fingerprint |-> "fpB", turn_count |-> MAX_TURNS,
                   is_completed |-> TRUE, is_blocked |-> TRUE,
                   conversation_history |-> NoValue, feedback_data |-> NoValue]
             ELSE NoRow]
    /\ clock = 0
    /\ pc = [w \in Conns |-> "idle"]
    /\ term = [w \in Conns |-> "none"]
    /\ client = [w \in Conns |-> "none"]
    /\ fingerprint = [w \in Conns |-> NoValue]
    /\ prevHist = [w \in Conns |-> <<>>]
    /\ llmIn = [w \in Conns |-> <<>>]
    /\ sent = [w \in Conns |-> [last |-> "none", notices |-> {}, completed |-> NoNotice,
                               image |-> "none", refused |-> FALSE]]
    /\ tasks = [w \in Conns |-> {}]
    /\ call = [c \in Callers |-> NoCall]
    /\ sem = [cap \in Capabilities |-> MAX_CONCURRENT_REQUESTS]
    /\ rpc = [r \in Reqs |-> "idle"]
    /\ inits = 0
    /\ faults = 0

\* the init messages of a client that never asks for the beginner level
PlainInits == {m \in InitMessages : m.difficulty # "beginner"}

\* the steps of connection w and of its remote calls, under an environment
\* that may fail
ConnNext(w) ==
    \/ \E ch \in {PersonaOf(w), UnknownCharacter}, created \in {"stored", "failed", "raised"} :
            Connect(w, ch, created)
    \/ ClientDrops(w)
    \/ SeesDisconnect(w)
    \/ \E m \in PlainInits, looked \in BOOLEAN, stored \in BOOLEAN :
            ReceiveInit(w, m, looked, stored)
    \/ ReceiveAudio(w)
    \/ \E m \in OtherMessages \cup AudioMessages : ReceiveOther(w, m)
    \/ \E stored \in BOOLEAN : Transcribed(w, stored)
    \/ \E stored \in BOOLEAN : Recorded(w, stored)
    \/ \E ok \in BOOLEAN : Replied(w, ok, ReplyText(sessions[w].turn_count))
    \/ StreamChunk(w)
    \/ Streamed(w)
    \/ Lingered(w)
    \/ GateAcquire(w)
    \/ \E o \in Outcomes :
          \E t \in (IF o = "ok" THEN TranscriptChoices(w) ELSE {<<>>}) : AttemptReturns(w, o, t)
    \/ BackoffElapsed(w)
    \/ \E o \in Outcomes : StreamOpens(w, o)
    \/ StreamEnds(w)
    \/ StreamBreaks(w)
    \/ StreamFinalized(w)

\* one websocket connection
First == <<"ws", 1>>
Next == ConnNext(First)

Spec == Init /\ [][Next]_vars

\* ---------------------------- two connections, under an environment that
\* does not fail: each client sends one init with its fingerprint, then audio
CalmInits == {m \in InitMessages : Truthy(m.fingerprint) /\ m.difficulty = "advanced"}

PairNext ==
    \E w \in Conns :
        \/ Connect(w, PersonaOf(w), "stored")
        \/ \E m \in CalmInits : fingerprint[w] = NoValue /\ ReceiveInit(w, m, TRUE, TRUE)
        \/ fingerprint[w] # NoValue /\ ReceiveAudio(w)
        \/ Transcribed(w, TRUE)
        \/ Recorded(w, TRUE)
        \/ Replied(w, TRUE, ReplyText(sessions[w].turn_count))
        \/ StreamChunk(w)
        \/ Streamed(w)
        \/ Lingered(w)
        \/ GateAcquire(w)
        \/ AttemptReturns(w, "ok", <<"u", ToString(sessions[w].turn_count + 1)>>)
        \/ StreamOpens(w, "ok")
        \/ StreamEnds(w)

PairSpec == Init /\ [][PairNext]_vars

\* ------------------- one connection, under an environment that does not
\* fail, whose language model answers the first utterance with any reply text
EmotionNext ==
    \/ Connect(First, PersonaOf(First), "stored")
    \/ \E m \in CalmInits : fingerprint[First] = NoValue /\ ReceiveInit(First, m, TRUE, TRUE)
    \/ /\ fingerprint[First] # NoValue
       /\ sessions[First].turn_count = 0
       /\ ReceiveAudio(First)
    \/ Transcribed(First, TRUE)
    \/ Recorded(First, TRUE)
    \/ \E text \in ReplyTexts : Replied(First, TRUE, text)
    \/ StreamChunk(First)
    \/ Streamed(First)
    \/ GateAcquire(First)
    \/ AttemptReturns(First, "ok", <<"u", ToString(sessions[First].turn_count + 1)>>)
    \/ StreamOpens(First, "ok")
    \/ StreamEnds(First)

EmotionSpec == Init /\ [][EmotionNext]_vars

\* the turns whose background tasks the client does not wait for
LastTurns == (MAX_TURNS - MaxPendingTurns)..MAX_TURNS

\* ------------------- one connection whose turns go through without a
\* failure, with its background tasks, whose calls may fail; the client
\* speaks when the tasks of the turns before the last ones have finished
EnrichNext ==
    \/ Connect(First, PersonaOf(First), "stored")
    \/ \E m \in CalmInits : fingerprint[First] = NoValue /\ ReceiveInit(First, m, TRUE, TRUE)
    \/ /\ fingerprint[First] # NoValue
       /\ PendingTurns(First) \subseteq LastTurns
       /\ ReceiveAudio(First)
    \/ Transcribed(First, TRUE)
    \/ Recorded(First, TRUE)
    \/ Replied(First, TRUE, ReplyText(sessions[First].turn_count))
    \/ StreamChunk(First)
    \/ Streamed(First)
    \/ Lingered(First)
    \/ GateAcquire(First)
    \/ AttemptReturns(First, "ok", <<"u", ToString(sessions[First].turn_count + 1)>>)
    \/ StreamOpens(First, "ok")
    \/ StreamEnds(First)
    \/ \E k \in 1..MAX_TURNS, outcome \in EvaluationOutcomes :
          EvaluationReturns(First, k, outcome)
    \/ \E k \in 1..MAX_TURNS : save_evaluation(First, k)
    \/ \E k \in 1..MAX_TURNS, ok \in BOOLEAN : generate_and_send_suggestions(First, k, ok)
    \/ \E ok \in BOOLEAN : generate_and_save_overall_assessment(First, ok)

EnrichSpec == Init /\ [][EnrichNext]_vars

\* ------------------- one connection, under an environment that does not
\* fail, whose client sends init messages with any difficulty
LevelInits == {m \in InitMessages : m.fingerprint = "fpA"}

LevelNext ==
    \/ Connect(First, PersonaOf(First), "stored")
    \/ \E m \in LevelInits : ReceiveInit(First, m, TRUE, TRUE)
    \/ ReceiveAudio(First)
    \/ Transcribed(First, TRUE)
    \/ Recorded(First, TRUE)
    \/ Replied(First, TRUE, ReplyText(sessions[First].turn_count))
    \/ StreamChunk(First)
    \/ Streamed(First)
    \/ Lingered(First)
    \/ GateAcquire(First)
    \/ AttemptReturns(First, "ok", <<"u", ToString(sessions[First].turn_count + 1)>>)
    \/ StreamOpens(First, "ok")
    \/ StreamEnds(First)

LevelSpec == Init /\ [][LevelNext]_vars

\* ------------------- one connection whose calls all succeed in the end
\* (a transcription attempt may fail with a transient failure while the
\* retry loop has an attempt left), whose client stays, sends one init and
\* then MAX_TURNS audio messages that are heard, each when the background
\* tasks of the turn before have finished; every step that can be taken is
\* taken in the end
LiveNext ==
    \/ Connect(First, PersonaOf(First), "stored")
    \/ \E m \in CalmInits : fingerprint[First] = NoValue /\ ReceiveInit(First, m, TRUE, TRUE)
    \/ /\ fingerprint[First] # NoValue
       /\ sessions[First].turn_count < MAX_TURNS
       /\ PendingTurns(First) = {}
       /\ ReceiveAudio(First)
    \/ \E k \in 1..MAX_TURNS, outcome \in {"issues", "perfect"} :
          EvaluationReturns(First, k, outcome)
    \/ \E k \in 1..MAX_TURNS : save_evaluation(First, k)
    \/ \E k \in 1..MAX_TURNS : generate_and_send_suggestions(First, k, TRUE)
    \/ generate_and_save_overall_assessment(First, TRUE)
    \/ Transcribed(First, TRUE)
    \/ Recorded(First, TRUE)
    \/ Replied(First, TRUE, ReplyText(sessions[First].turn_count))
    \/ StreamChunk(First)
    \/ Streamed(First)
    \/ Lingered(First)
    \/ GateAcquire(First)
    \/ AttemptReturns(First, "ok", <<"u", ToString(sessions[First].turn_count + 1)>>)
    \/ \E o \in {x \in Outcomes : IsTransient(x)} :
          /\ call[First].attempt < MAX_RETRIES - 1
          /\ AttemptReturns(First, o, <<>>)
    \/ BackoffElapsed(First)
    \/ StreamOpens(First, "ok")
    \/ StreamEnds(First)

LiveSpec == Init /\ [][LiveNext]_vars /\ WF_vars(LiveNext)

\* ------------------- the same connection with a client that may go away
\* at any time
DropNext ==
    \/ EnrichNext
    \/ ClientDrops(First)
    \/ SeesDisconnect(First)
    \/ StreamFinalized(First)

DropSpec == Init /\ [][DropNext]_vars

\* ------------------------------------------- the gate under /api/chat load
GateNext ==
    \/ \E r \in Reqs, ch \in {"jeongsu", UnknownCharacter} : ChatStart(r, ch)
    \/ \E r \in Reqs : ChatTranscribed(r)
    \/ \E r \in Reqs, ok \in BOOLEAN : ChatReplied(r, ok)
    \/ \E r \in Reqs : ChatSynthesized(r)
    \/ \E c \in Reqs : GateAcquire(c)
    \/ \E c \in Reqs, o \in Outcomes :
          \E t \in (IF o = "ok" THEN TranscriptChoices(c) ELSE {<<>>}) : AttemptReturns(c, o, t)
    \/ \E c \in Reqs : BackoffElapsed(c)


GateSpec == Init /\ [][GateNext]_vars

\* ------------------------------------------------------------------ claims
\* the callers that hold a token of capability cap
Holders(cap) ==
    {c \in Callers : /\ call[c].kind # "none"
                     /\ CapOf(call[c].kind) = cap
                     /\ call[c].st \in {"running", "sleeping", "opening",
                                        "streaming", "abandoned"}}

\* the handler of connection w is between accept and its exit
Served(w) == pc[w] \notin {"idle", "done", "crashed"}

\* the fingerprints of the completed rows of the sessions table
CompletedFingerprints(tbl) ==
    {tbl[sid].fingerprint : sid \in {x \in DOMAIN tbl : ~tbl[x].absent /\ tbl[x].is_completed}}

\* C1: in every reachable state turn_count is the number of history entries
\* whose speaker is the user; a step that appends a user entry raises
\* turn_count by exactly one, a step that appends an agent entry (the greeting
\* included) leaves it unchanged, entries are only appended, and no step
\* lowers turn_count.
C1_TurnCountIsUserEntries ==
    /\ [](\A w \in Conns :
            ~sessions[w].absent =>
                sessions[w].turn_count = CountUser(sessions[w].conversation_history))
    /\ [][\A w \in Conns :
            ~sessions[w].absent =>
                LET h  == sessions[w].conversation_history
                    hn == sessions'[w].conversation_history
                    n  == sessions[w].turn_count
                    nn == sessions'[w].turn_count
                IN  /\ ~sessions'[w].absent
                    /\ nn >= n
                    /\ hn = h => nn = n
                    /\ hn # h =>
                         /\ Len(hn) = Len(h) + 1
                         /\ SubSeq(hn, 1, Len(h)) = h
                         /\ nn = n + (IF hn[Len(hn)].speaker = "user" THEN 1 ELSE 0)]_vars

\* the greeting and two replies are in the history next to two user turns
C1_Witness ==
    \E w \in Conns :
        /\ ~sessions[w].absent
        /\ sessions[w].turn_count = 2
        /\ Len(sessions[w].conversation_history) = 5
        /\ sessions[w].conversation_history[1].speaker = "ai"

\* C2 (as claimed): is_completed is false in every state where turn_count is
\* below MAX_TURNS, and true in every state from the completion step of the
\* turn that brings turn_count to MAX_TURNS.
C2_CompletedExactlyAtLimit ==
    \A w \in Conns :
        ~sessions[w].absent =>
            /\ sessions[w].turn_count < MAX_TURNS => ~sessions[w].is_completed
            /\ (sessions[w].turn_count >= MAX_TURNS /\ pc[w] # "recorded")
                  => sessions[w].is_completed

\* C2 (amended): while the handler is serving the connection, is_completed is
\* false whenever turn_count is below MAX_TURNS and true from the completion
\* step of the turn that brings turn_count to MAX_TURNS; once the handler has
\* retired the session it is completed whatever its turn_count is.
C2_CompletedAtLimitWhileServed ==
    \A w \in Conns :
        ~sessions[w].absent =>
            /\ (Served(w) /\ sessions[w].turn_count < MAX_TURNS) => ~sessions[w].is_completed
            /\ (Served(w) /\ sessions[w].turn_count >= MAX_TURNS /\ pc[w] # "recorded")
                  => sessions[w].is_completed
            /\ pc[w] = "done" => sessions[w].is_completed

\* the tenth utterance has been recorded and the completion step has run
C2_Witness ==
    \E w \in Conns :
        /\ pc[w] = "llm"
        /\ sessions[w].turn_count = MAX_TURNS
        /\ sessions[w].is_completed

\* C3: turn_count never exceeds MAX_TURNS, and once is_completed is true
\* neither turn_count nor the user entries of the history change.
C3_NoTurnAfterCompletion ==
    /\ [](\A w \in Conns : ~sessions[w].absent => sessions[w].turn_count <= MAX_TURNS)
    /\ [][\A w \in Conns :
            (~sessions[w].absent /\ sessions[w].is_completed) =>
                /\ sessions'[w].is_completed
                /\ sessions'[w].turn_count = sessions[w].turn_count
                /\ UserEntries(sessions'[w].conversation_history)
                     = UserEntries(sessions[w].conversation_history)]_vars

\* a session completed by its tenth turn, its handler gone after the last reply
C3_Witness ==
    \E w \in Conns :
        /\ term[w] = "final"
        /\ sessions[w].is_completed
        /\ sessions[w].turn_count = MAX_TURNS
        /\ Len(sessions[w].conversation_history) = 2 * MAX_TURNS + 1

FirstInitOfCompleted(w) ==
    /\ pc[w] = "recv"
    /\ ~Truthy(fingerprint[w])
    /\ Truthy(fingerprint'[w])
    /\ fingerprint'[w] \in CompletedFingerprints(durable)

\* the handler of w sent the blocked notice and left; nothing was recorded
BlockedAndClosed(w) ==
    /\ term'[w] = "blocked"
    /\ pc'[w] = "done"
    /\ "blocked" \in sent'[w].notices
    /\ w \notin wsmap'
    /\ sessions'[w].turn_count = sessions[w].turn_count
    /\ sessions'[w].conversation_history = sessions[w].conversation_history

\* C5 (as claimed): the first init that carries a fingerprint with a durable
\* completed session is answered with the blocked notice and the end of the
\* connection, and turn_count and the history never change afterwards.
C5_BlockedAtFirstInit ==
    /\ [][\A w \in Conns : FirstInitOfCompleted(w) => BlockedAndClosed(w)]_vars
    /\ [][\A w \in Conns :
            term[w] = "blocked" =>
                /\ pc'[w] = "done"
                /\ sessions'[w].turn_count = sessions[w].turn_count
                /\ sessions'[w].conversation_history = sessions[w].conversation_history]_vars

\* C5 (amended): the same, for a first init during which the store answers
\* the guard's lookup; when the lookup fails the guard admits the connection.
C5_BlockedAtFirstInitWhenStoreAnswers ==
    /\ [][\A w \in Conns :
            (FirstInitOfCompleted(w) /\ faults' = faults) => BlockedAndClosed(w)]_vars
    /\ [][\A w \in Conns :
            term[w] = "blocked" =>
                /\ pc'[w] = "done"
                /\ sessions'[w].turn_count = sessions[w].turn_count
                /\ sessions'[w].conversation_history = sessions[w].conversation_history]_vars

\* a connection gave the fingerprint of the earlier completed session and
\* was blocked at its init
C5_Witness ==
    \E w \in Conns :
        /\ term[w] = "blocked"
        /\ fingerprint[w] = durable[Legacy].fingerprint
        /\ "connected" \in sent[w].notices
        /\ "blocked" \in sent[w].notices
        /\ pc[w] = "done"

\* connection w was blocked at its init by the fingerprint with which
\* another connection completed all its turns
BlockedBySibling(w) ==
    /\ term[w] = "blocked"
    /\ Truthy(fingerprint[w])
    /\ \E v \in Conns \ {w} :
          /\ fingerprint[v] = fingerprint[w]
          /\ sessions[v].turn_count = MAX_TURNS
          /\ durable[v].is_completed

C8_TokenReleasedOnce ==
    /\ \A cap \in Capabilities :
          /\ sem[cap] = MAX_CONCURRENT_REQUESTS - Cardinality(Holders(cap))
          /\ sem[cap] <= MAX_CONCURRENT_REQUESTS
    /\ \A c \in Callers :
          call[c].kind # "none" =>
              /\ call[c].st = "waiting" => (call[c].acquired = 0 /\ call[c].released = 0)
              /\ c \in Holders(CapOf(call[c].kind))
                    => (call[c].acquired = 1 /\ call[c].released = 0)
              /\ call[c].st \in {"ok", "fail", "closed"}
                    => (call[c].acquired = 1 /\ call[c].released = 1)

\* the client went away in the middle of a stream, the generator was
\* finalized, and the synthesis tokens are all free again
C8_Witness ==
    \E w \in Conns :
        /\ call[w].kind = "stream"
        /\ call[w].st = "closed"
        /\ client[w] = "gone"
        /\ call[w].released = 1
        /\ sem["tts"] = MAX_CONCURRENT_REQUESTS

\* C7: for each capability at most MAX_CONCURRENT_REQUESTS calls hold an
\* admission token at the same time, and a caller that arrives while all the
\* tokens are held stays waiting until a token has been released.
C7_Ceiling ==
    /\ [](\A cap \in Capabilities : Cardinality(Holders(cap)) <= MAX_CONCURRENT_REQUESTS)
    /\ [][\A c \in Callers :
            (/\ call[c].st = "waiting"
             /\ Cardinality(Holders(CapOf(call[c].kind))) = MAX_CONCURRENT_REQUESTS)
            => call'[c].st = "waiting"]_vars

\* all three transcription tokens are held and a fourth caller waits
C7_Witness ==
    /\ Cardinality(Holders("stt")) = MAX_CONCURRENT_REQUESTS
    /\ \E c \in Callers : call[c].kind = "stt" /\ call[c].st = "waiting"

\* C9: a retried call whose last failure is transient was invoked exactly
\* MAX_RETRIES times before the failure is surfaced; a call that succeeds at
\* attempt k was invoked exactly k times (k - 1 retried failures), k <= MAX_RETRIES.
C9_RetryCount ==
    \A c \in Callers :
        call[c].kind \in {"stt", "tts"} =>
            /\ call[c].invoked <= MAX_RETRIES
            /\ (call[c].st = "fail" /\ IsTransient(call[c].last))
                  => (call[c].invoked = MAX_RETRIES /\ Len(call[c].slept) = MAX_RETRIES - 1)
            /\ call[c].st = "ok"
                  => (call[c].invoked = Len(call[c].slept) + 1)

\* a call was invoked MAX_RETRIES times, failed with a rate-limit signal each
\* time it mattered, and the failure was surfaced
C9_Witness ==
    /\ \E c \in Callers : /\ call[c].st = "fail" /\ call[c].last = "http429"
                           /\ call[c].invoked = MAX_RETRIES
    /\ faults = MaxFaults

\* C10 (as claimed): no failure other than a rate-limit signal, a
\* service-unavailable signal or a transport failure is ever followed by
\* another invocation of the operation.
C10_NoRetryOfNonTransient ==
    \A c \in Callers : call[c].st = "sleeping" => IsTransient(call[c].last)

\* C11 (as claimed): completing a completed session again, whenever the call
\* is made, leaves is_completed and end_time as the first call set them.
C11_CompletionIdempotent ==
    \A w \in Conns :
        (~sessions[w].absent /\ sessions[w].is_completed) =>
            \A now \in {clock, clock + 1} :
                LET again == complete_session(sessions[w], now)
                IN  /\ again.is_completed = sessions[w].is_completed
                    /\ again.end_time = sessions[w].end_time

\* C12: is_completed never goes back from true to false (so it turns true at
\* most once), and in every reachable state end_time is set (not the initial
\* None, which the model writes 0) exactly when is_completed is true.
C12_CompletedOnceWithEndTime ==
    /\ [](\A w \in Conns :
            ~sessions[w].absent =>
                (sessions[w].is_completed <=> sessions[w].end_time # 0))
    /\ [][\A w \in Conns :
            (~sessions[w].absent /\ sessions[w].is_completed) =>
                (~sessions'[w].absent /\ sessions'[w].is_completed)]_vars

\* a session completed by its final turn: end_time was set then, and the
\* later retire did not touch it
C12_Witness ==
    \E w \in Conns :
        /\ term[w] = "final"
        /\ sessions[w].is_completed
        /\ sessions[w].end_time > 0
        /\ sessions[w].end_time < clock

\* C13 (as claimed): once the handler of a connection has retired a session
\* that did not reach the turn limit, the session is completed in the
\* registry and its durable record is completed too.
C13_RetireCompletesDurable ==
    \A w \in Conns :
        (/\ pc[w] = "done"
         /\ ~sessions[w].absent
         /\ ~durable[w].absent
         /\ sessions[w].turn_count < MAX_TURNS)
        => (sessions[w].is_completed /\ durable[w].is_completed)

\* the session_completed message has been delivered to the client of w
ToldCompleted(w) == "session_completed" \in sent[w].notices

\* C14: once the reply of the turn that brought turn_count to MAX_TURNS has
\* been generated, the session is completed and session_completed, carrying
\* the session id and turn_count = MAX_TURNS, has been sent; it is sent while
\* the handler still serves the connection, to a client that is there; and a
\* handler that ended after its final turn has sent it.
C14_CompletionNoticeBeforeClose ==
    /\ [](\A w \in Conns :
            /\ (pc[w] = "tts" /\ is_final_turn(sessions[w])) => ToldCompleted(w)
            /\ term[w] = "final" => ToldCompleted(w)
            /\ ToldCompleted(w) =>
                  /\ sent[w].completed = [type |-> "session_completed", session_id |-> w,
                                          turn_count |-> MAX_TURNS]
                  /\ sessions[w].is_completed
                  /\ sessions[w].turn_count = MAX_TURNS)
    /\ [][\A w \in Conns :
            (~ToldCompleted(w) /\ ToldCompleted(w)') =>
                (client[w] = "open" /\ pc[w] = "llm" /\ pc'[w] = "tts")]_vars

\* the handler ended after the final turn; its client was told so
C14_Witness ==
    \E w \in Conns :
        /\ term[w] = "final"
        /\ pc[w] = "done"
        /\ ToldCompleted(w)
        /\ sent[w].completed.turn_count = MAX_TURNS
        /\ sent[w].last = "audio_stream_end"

\* the text t is empty or consists of whitespace only
WhitespaceOnly(t) == \A i \in 1..Len(t) : t[i] = Blank

\* the handler of w takes the step that follows a transcription whose result
\* is empty or whitespace-only, with its client there
HearsNothing(w) ==
    /\ pc[w] = "stt"
    /\ pc'[w] # "stt"
    /\ call[w].st = "ok"
    /\ WhitespaceOnly(call[w].result)
    /\ client[w] = "open"

\* C15: the step after an empty or whitespace-only transcript sends an error
\* notice and returns to the receive loop; the session (turn_count, history,
\* feedback_items, is_completed), the durable record and the last reply
\* request are unchanged, no synthesis is started, and the connection stays
\* registered and open.
C15_EmptyTranscriptIsRecoverable ==
    [][\A w \in Conns :
         HearsNothing(w) =>
             /\ sent'[w].last = "error: not heard"
             /\ sent'[w].notices = sent[w].notices
             /\ pc'[w] = "recv"
             /\ sessions' = sessions
             /\ durable' = durable
             /\ llmIn' = llmIn
             /\ call'[w] = NoCall
             /\ wsmap' = wsmap
             /\ term'[w] = "none"]_vars

\* in the middle of a conversation an utterance was not heard; the handler
\* is back at its receive loop
C15_Witness ==
    \E w \in Conns :
        /\ pc[w] = "recv"
        /\ sent[w].last = "error: not heard"
        /\ client[w] = "open"
        /\ sessions[w].turn_count = 2
        /\ ~sessions[w].is_completed

\* the handler of w takes the step that follows a transcription that failed
\* transiently at each of its MAX_RETRIES attempts, with its client there
TranscriptionExhausted(w) ==
    /\ pc[w] = "stt"
    /\ pc'[w] # "stt"
    /\ call[w].st = "fail"
    /\ IsTransient(call[w].last)
    /\ call[w].invoked = MAX_RETRIES
    /\ client[w] = "open"

\* C16 (as claimed): after a transcription that failed with its retries
\* exhausted the client gets an error, turn_count and the history are
\* unchanged, and the handler is back at its receive loop with the connection
\* registered, ready for the next audio message.
C16_TranscriptionFailureKeepsOpen ==
    [][\A w \in Conns :
         TranscriptionExhausted(w) =>
             /\ TypeOf(sent'[w].last) = "error"
             /\ sessions'[w].turn_count = sessions[w].turn_count
             /\ sessions'[w].conversation_history = sessions[w].conversation_history
             /\ pc'[w] = "recv"
             /\ w \in wsmap']_vars

\* the handler of w, its client there and the turn limit not reached, takes
\* the step in which the reply generation of a recorded turn fails, or the
\* step that follows the failure of the synthesis of its reply
FailsAfterRecording(w) ==
    /\ client[w] = "open"
    /\ sessions[w].turn_count < MAX_TURNS
    /\ \/ pc[w] = "llm" /\ pc'[w] \notin {"llm", "tts"}
       \/ pc[w] = "tts" /\ pc'[w] # "tts" /\ call[w].st = "fail"

\* C17 (as claimed): when reply generation or synthesis fails after the
\* utterance was recorded, turn_count and the user entries stay, and the
\* handler is back at its receive loop with the connection registered, so
\* that the next audio message is the following turn.
C17_FailureAfterRecordingKeepsOpen ==
    [][\A w \in Conns :
         FailsAfterRecording(w) =>
             /\ sessions'[w].turn_count = sessions[w].turn_count
             /\ UserEntries(sessions'[w].conversation_history)
                  = UserEntries(sessions[w].conversation_history)
             /\ pc'[w] = "recv"
             /\ w \in wsmap']_vars

\* a step of the handler of w that consumes an inbound message
ConsumesMessage(w) ==
    \/ \E m \in InitMessages, looked \in BOOLEAN, stored \in BOOLEAN :
          ReceiveInit(w, m, looked, stored)
    \/ ReceiveAudio(w)
    \/ \E m \in OtherMessages \cup AudioMessages : ReceiveOther(w, m)
    \/ SeesDisconnect(w)

\* C18: once the handler of a connection has terminated, for whatever
\* reason, it stays terminated: no step consumes an inbound message of that
\* connection or sends to it, and turn_count and the history of its session
\* do not change.
C18_TerminatedIsTerminal ==
    [][\A w \in Conns :
         term[w] # "none" =>
             /\ pc[w] \in {"done", "crashed"}
             /\ pc'[w] = pc[w]
             /\ term'[w] = term[w]
             /\ ~ConsumesMessage(w)
             /\ sent'[w] = sent[w]
             /\ sessions'[w].absent = sessions[w].absent
             /\ ~sessions[w].absent =>
                   /\ sessions'[w].turn_count = sessions[w].turn_count
                   /\ sessions'[w].conversation_history
                        = sessions[w].conversation_history]_vars

\* the handler ended on an error in the third turn while its client, still
\* there, can go on sending
C18_Witness ==
    \E w \in Conns :
        /\ term[w] = "error"
        /\ pc[w] = "done"
        /\ client[w] = "open"
        /\ sessions[w].turn_count = 3
        /\ sent[w].last = "error: server"

\* C19: the step that consumes a ping sends pong, the step that consumes a
\* message of an unrecognized type sends the unknown-type error; either way
\* the session, the durable records, the handler's position and locals, the
\* calls in progress and the registration of the connection are unchanged.
C19_PingAndUnknownChangeNothing ==
    [][\A w \in Conns : \A m \in OtherMessages :
         ReceiveOther(w, m) =>
             /\ sent'[w].last = (IF m.type = "ping" THEN "pong" ELSE "error: unknown type")
             /\ TypeOf(sent'[w].last) = (IF m.type = "ping" THEN "pong" ELSE "error")
             /\ sent'[w].notices = sent[w].notices
             /\ sessions' = sessions
             /\ durable' = durable
             /\ pc' = pc /\ pc[w] = "recv"
             /\ term' = term
             /\ wsmap' = wsmap /\ w \in wsmap
             /\ call' = call
             /\ <<fingerprint, prevHist, llmIn>>' = <<fingerprint, prevHist, llmIn>>]_vars

\* a ping was answered in the middle of a conversation
C19_Witness ==
    \E w \in Conns :
        /\ pc[w] = "recv"
        /\ sent[w].last = "pong"
        /\ sessions[w].turn_count = 2
        /\ client[w] = "open"
        /\ w \in wsmap

\* the handler of w consumes init message m, the first to carry a
\* fingerprint, while the store fails the guard's lookup
FirstInitLookupFails(w, m) ==
    /\ Truthy(m.fingerprint)
    /\ ~Truthy(fingerprint[w])
    /\ \E stored \in BOOLEAN : ReceiveInit(w, m, FALSE, stored)

\* C20: with a failing lookup the guard answers "not blocked" for every
\* address and fingerprint, and the init during which the lookup fails is
\* handled as that of an admitted client: no blocked or error notice, the
\* handler goes on (to the greeting when the init carries a valid
\* difficulty), the connection stays registered, the fingerprint is kept.
C20_GuardFailsOpen ==
    /\ [](\A ip \in Addresses \cup {NoValue} : \A fp \in Fingerprints \cup {NoValue, ""} :
            ~check_user_ever_completed(durable, ip, fp, FALSE))
    /\ [][\A w \in Conns : \A m \in InitMessages :
            FirstInitLookupFails(w, m) =>
                /\ term'[w] = "none"
                /\ w \in wsmap'
                /\ fingerprint'[w] = m.fingerprint
                /\ sent'[w].notices = sent[w].notices
                /\ IF m.difficulty \in Difficulties
                   THEN /\ pc'[w] = "init_tts"
                        /\ sent'[w].last = "init_audio_stream_start"
                        /\ sessions'[w].difficulty = m.difficulty
                   ELSE /\ pc'[w] = "recv"
                        /\ sent'[w] = sent[w]
                        /\ sessions' = sessions]_vars

\* a client whose fingerprint has a completed session was admitted while
\* the lookup failed, and its conversation went on
C20_Witness ==
    \E w \in Conns :
        /\ fingerprint[w] \in CompletedFingerprints(durable)
        /\ fingerprint[w] = durable[Legacy].fingerprint
        /\ Served(w)
        /\ term[w] = "none"
        /\ sessions[w].turn_count = 1
        /\ "blocked" \notin sent[w].notices

\* C22 (as claimed): the wait before attempt n of a retried call is 2^(n-1)
\* units of the initial delay (the i-th wait of a call comes before its
\* attempt i + 1), and no wait follows the last permitted attempt.
C22_DelayBeforeAttempt ==
    \A c \in Callers :
        call[c].kind \in {"stt", "tts"} =>
            /\ \A i \in 1..Len(call[c].slept) : call[c].slept[i] = Pow2((i + 1) - 1)
            /\ Len(call[c].slept) <= MAX_RETRIES - 1

\* C22 (amended): the wait after the n-th failed attempt of a retried call,
\* that is before attempt n + 1, is 2^(n-1) units of the initial delay: the
\* first wait is the initial delay itself.  No wait follows the last
\* permitted attempt: a call waits at most MAX_RETRIES - 1 times, a waiting
\* call has attempts left, and a surfaced failure was not waited for.
C22_DelayAfterFailedAttempt ==
    \A c \in Callers :
        call[c].kind \in {"stt", "tts"} =>
            /\ \A n \in 1..Len(call[c].slept) : call[c].slept[n] = Pow2(n - 1)
            /\ Len(call[c].slept) <= MAX_RETRIES - 1
            /\ call[c].st = "sleeping" =>
                  (call[c].invoked = Len(call[c].slept) /\ call[c].invoked < MAX_RETRIES)
            /\ call[c].st = "fail" => call[c].invoked = Len(call[c].slept) + 1

\* a call failed at each of its MAX_RETRIES attempts: it waited one unit,
\* then two, and nothing after the last attempt
C22_Witness ==
    \E c \in Reqs : /\ call[c].kind = "stt" /\ call[c].st = "fail"
                    /\ call[c].invoked = MAX_RETRIES
                    /\ call[c].slept = <<1, 2>>

\* the emotion classes, by priority
EmotionRank == [excited |-> 4, surprised |-> 3, thoughtful |-> 2, smile |-> 1, neutral |-> 0]

\* the classes that have a keyword contained in the text (letter case
\* ignored, as a substring); neutral needs no keyword
MatchingEmotions(text) ==
    {"neutral"}
    \cup (IF AnyWord(Lower(text), ExcitedWords) THEN {"excited"} ELSE {})
    \cup (IF AnyWord(Lower(text), SurprisedWords) THEN {"surprised"} ELSE {})
    \cup (IF AnyWord(Lower(text), ThoughtfulWords) THEN {"thoughtful"} ELSE {})
    \cup (IF AnyWord(Lower(text), SmileWords) THEN {"smile"} ELSE {})

\* the reply the handler of connection w has just recorded
LastReply(w) ==
    LET h == sessions[w].conversation_history IN h[Len(h)].text

\* C21: the emotion sent with a reply is a function of the reply text: the
\* highest-priority class (excited > surprised > thoughtful > smile > neutral)
\* that has a keyword contained in the text, neutral when none has; a reply
\* with both an excited keyword and a smile keyword is shown as excited.
C21_EmotionByPriority ==
    \A w \in Conns :
        pc[w] = "tts" =>
            /\ sent[w].image \in MatchingEmotions(LastReply(w))
            /\ \A e \in MatchingEmotions(LastReply(w)) :
                  EmotionRank[e] <= EmotionRank[sent[w].image]
            /\ sent[w].image = analyze_emotion_from_text(LastReply(w))
            /\ ({"excited", "smile"} \subseteq MatchingEmotions(LastReply(w)))
                  => sent[w].image = "excited"

\* the reply "Amazing nice", with an excited keyword in capitals and a smile
\* keyword, was sent with the excited image
C21_Witness ==
    /\ pc[First] = "tts"
    /\ LastReply(First) = <<"A", "m", "a", "z", "i", "n", "g", " ", "n", "i", "c", "e">>
    /\ sent[First].image = "excited"

\* the handler of connection w left the loop after the final turn and retired
\* the session
TornDownAfterFinalTurn(w) == pc[w] = "done" /\ term[w] = "final"

\* C23 (as claimed): the background tasks are not awaited before the next
\* turn, yet when the connection is torn down after the final turn no
\* evaluation or assessment is still in flight, and the feedback persisted
\* for the completed session holds every feedback item and the overall
\* assessment the session has.
C23_FeedbackCompleteAtTeardown ==
    \A w \in Conns :
        (TornDownAfterFinalTurn(w) /\ ~durable[w].absent /\ durable[w].is_completed) =>
            /\ \A t \in tasks[w] : t.kind \notin {"evaluate", "save", "assess"}
            /\ durable[w].feedback_data.feedback_items = sessions[w].feedback_items
            /\ durable[w].feedback_data.overall_assessment = sessions[w].overall_assessment

\* C24 (as claimed): on the final turn the session is completed after the
\* reply is generated, not while the reply call is in flight, and the history
\* persisted with the completion is the whole history, the final utterance
\* and the closing reply included, with the feedback accumulated so far.
C24_CompletedAfterReplyWithFullHistory ==
    \A w \in Conns :
        /\ pc[w] = "llm" => ~sessions[w].is_completed
        /\ (/\ pc[w] \in {"tts", "linger"}
            /\ is_final_turn(sessions[w])
            /\ ~durable[w].absent /\ durable[w].is_completed)
              => /\ durable[w].conversation_history = sessions[w].conversation_history
                 /\ durable[w].feedback_data.feedback_items = sessions[w].feedback_items

\* another connection with the fingerprint of connection w has completed its
\* session in the store
SiblingCompleted(w) ==
    \E v \in Conns \ {w} :
        /\ Truthy(fingerprint[w]) /\ fingerprint[v] = fingerprint[w]
        /\ ~durable[v].absent /\ durable[v].is_completed
        /\ durable[v].fingerprint = fingerprint[w]

\* C25 (as claimed): an audio payload is rejected with an error and starts no
\* turn whenever the store marks the receiving session blocked, and also
\* whenever another live connection with the same fingerprint has completed
\* its session before the payload arrives.
C25_AudioRejectedOnceSiblingCompleted ==
    [][\A w \in Conns :
          (ReceiveAudio(w) /\ (is_session_blocked(durable, w, TRUE) \/ SiblingCompleted(w)))
             => /\ pc'[w] = "done"
                /\ sent'[w].last = "error: session over"
                /\ sessions'[w].turn_count = sessions[w].turn_count]_vars

\* C26 (as claimed): an audio payload is processed as a turn only after the
\* connection's setup init has been handled: while no init message has been
\* received, no transcription is started and no turn is recorded.
C26_NoTurnBeforeInit ==
    \A w \in Conns :
        (inits = 0 /\ ~sessions[w].absent) =>
            /\ pc[w] \notin {"stt", "recorded", "llm", "tts", "linger"}
            /\ sessions[w].turn_count = 0
            /\ sessions[w].conversation_history = <<>>

\* the user utterances of a history, in order, are those of turns 1, 2, ...
\* and the entry after the utterance of turn k, if any, is the reply of turn k
InTurnOrder(h) ==
    /\ \A i \in 1..Len(h) :
          h[i].speaker = "user" =>
              /\ h[i].text \in Transcripts(CountUser(SubSeq(h, 1, i))) \ {<<>>, <<Blank>>}
              /\ i < Len(h) => h[i + 1] = [speaker |-> "ai",
                                           text |-> ReplyText(CountUser(SubSeq(h, 1, i)))]
    /\ \A i \in 1..Len(h) :
          (h[i].speaker = "ai" /\ h[i].text # InitMessage(PersonaOf(First))
                               /\ h[i].text # InitMessage(PersonaOf(<<"ws", 2>>)))
              => (i > 1 /\ h[i - 1].speaker = "user")

\* C27: within a connection the turns are processed one after the other, in
\* the order received: the history holds the utterance and the reply of turn
\* k before any entry of turn k + 1, a transcription starts only from the
\* receive with no call of the connection in progress, and an utterance is
\* recorded only when every earlier utterance has its reply in the history.
C27_TurnsInOrderNoOverlap ==
    /\ [](\A w \in Conns : ~sessions[w].absent => InTurnOrder(sessions[w].conversation_history))
    /\ [][\A w \in Conns :
            /\ (pc[w] # "stt" /\ pc'[w] = "stt") => (pc[w] = "recv" /\ call[w] = NoCall)
            /\ (~sessions[w].absent /\ sessions'[w].turn_count # sessions[w].turn_count)
                  => LET h == sessions[w].conversation_history
                     IN  /\ pc[w] = "stt"
                         /\ h # <<>> => h[Len(h)].speaker = "ai"]_vars

\* the second turn of a connection has its reply, after the first
C27_Witness ==
    /\ pc[First] = "tts"
    /\ sessions[First].turn_count = 2
    /\ Len(sessions[First].conversation_history) >= 4

Undisturbed(w) ==
    /\ term[w] # "error"
    /\ TypeOf(sent[w].last) # "error"

EvaluationFailed(w, k) ==
    \E e \in tasks[w] : e.kind = "evaluate" /\ e.turn = k /\ e.st = "failed"

\* C30 (as claimed): a failed evaluation yields no feedback item for its
\* turn, and a failed computation of the overall assessment leaves the
\* session's overall assessment unset.
C30_FailedAssessmentLeavesUnset ==
    [][\A w \in Conns :
          /\ \A k \in 1..MAX_TURNS :
                (EvaluationFailed(w, k) /\ save_evaluation(w, k))
                   => sessions'[w].feedback_items = sessions[w].feedback_items
          /\ generate_and_save_overall_assessment(w, FALSE)
                => sessions'[w].overall_assessment = NoValue]_vars

\* the values of an overall assessment, by the number of items it is about
DefaultAssessments == {"default assessment of " \o ToString(n) : n \in 0..MAX_TURNS}
ComputedAssessments == {"assessment of " \o ToString(n) : n \in 0..MAX_TURNS}

\* C30 (amended): a failed evaluation returns None and yields no feedback
\* item for its turn; a failed computation of the overall assessment sets the
\* session's overall assessment to the default assessment, a successful one
\* to the computed assessment, and nothing else sets it.
C30_FailedAssessmentSetsDefault ==
    [][\A w \in Conns :
          /\ \A k \in 1..MAX_TURNS :
                /\ (EvaluationFailed(w, k) /\ save_evaluation(w, k))
                      => sessions'[w].feedback_items = sessions[w].feedback_items
                /\ EvaluationReturns(w, k, "failed") => EvaluationFailed(w, k)'
                /\ EvaluationFailed(w, k)
                      => \A e \in tasks[w] : (e.kind = "evaluate" /\ e.turn = k) => e.result = <<>>
          /\ generate_and_save_overall_assessment(w, FALSE)
                => sessions'[w].overall_assessment \in DefaultAssessments
          /\ generate_and_save_overall_assessment(w, TRUE)
                => sessions'[w].overall_assessment \in ComputedAssessments
          /\ (~sessions[w].absent /\ ~sessions'[w].absent
                 /\ sessions'[w].overall_assessment # sessions[w].overall_assessment)
                => \E ok \in BOOLEAN : generate_and_save_overall_assessment(w, ok)]_vars

\* the computation of the overall assessment failed and the session has the
\* default assessment; the evaluation of the tenth utterance failed too
C30_Witness ==
    /\ EvaluationFailed(First, MAX_TURNS)
    /\ sessions[First].overall_assessment \in DefaultAssessments
    /\ faults = MaxTaskFaults

\* the tasks of connection w that compute the overall assessment
AssessmentTasks(w) == {t \in tasks[w] : t.kind = "assess"}

\* the sequences that a sequence h starts with
Prefixes(h) == {SubSeq(h, 1, n) : n \in 0..Len(h)}

\* the handler of connection w is on the reply and audio path of its final
\* turn, and the next step of that path can be taken
FinalTurnPathGoesOn(w) ==
    /\ pc[w] = "recorded" => ENABLED Recorded(w, TRUE)
    /\ pc[w] = "llm" => ENABLED Replied(w, TRUE, ReplyText(sessions[w].turn_count))
    /\ pc[w] = "tts" =>
          ENABLED (\/ GateAcquire(w) \/ StreamOpens(w, "ok") \/ StreamEnds(w)
                   \/ Streamed(w))
    /\ pc[w] = "linger" => ENABLED Lingered(w)

\* C31: the task that computes the overall assessment is made only by a step
\* that ends the turn with turn_count = MAX_TURNS - 1, and only once; the
\* assessment stored is computed from feedback items the session had
\* collected by then (a prefix of its items); overall_assessment, once set,
\* is never set again; and while that task is unfinished every step of the
\* final turn's reply and audio path can be taken.
C31_AssessmentOnceFromItemsSoFar ==
    /\ [](\A w \in Conns :
            /\ Cardinality(AssessmentTasks(w)) <= 1
            /\ (AssessmentTasks(w) # {} /\ sessions[w].turn_count = MAX_TURNS)
                  => FinalTurnPathGoesOn(w))
    /\ [][\A w \in Conns :
            /\ (AssessmentTasks(w)' # AssessmentTasks(w) /\ AssessmentTasks(w)' # {})
                  => /\ sessions[w].turn_count = MAX_TURNS - 1
                     /\ pc[w] = "tts" /\ pc'[w] = "recv"
                     /\ sessions[w].overall_assessment = NoValue
                     /\ \A t \in AssessmentTasks(w)' :
                           t.arg \in Prefixes(sessions'[w].feedback_items)
            /\ (~sessions[w].absent /\ sessions[w].overall_assessment # NoValue)
                  => sessions'[w].overall_assessment = sessions[w].overall_assessment
            /\ (~sessions[w].absent /\ ~sessions'[w].absent
                  /\ sessions'[w].overall_assessment # sessions[w].overall_assessment)
                  => /\ AssessmentTasks(w) # {} /\ AssessmentTasks(w)' = {}
                     /\ sessions'[w].overall_assessment \in
                           {"assessment of " \o ToString(Len(t.arg)) : t \in AssessmentTasks(w)}
                           \cup {"default assessment of "
                                    \o ToString(Len(sessions[w].feedback_items))}]_vars

\* the final turn has gone through its reply and audio and the handler has
\* left, while the task computing the overall assessment, whose prompt lists
\* the item of the ninth utterance, is still unfinished
C31_Witness ==
    /\ pc[First] = "done" /\ term[First] = "final"
    /\ sent[First].last = "audio_stream_end"
    /\ sessions[First].overall_assessment = NoValue
    /\ \E t \in AssessmentTasks(First) : Len(t.arg) = 1

\* C32 (as claimed): the synthesis of a reply goes through the gate: it holds
\* a token of the synthesis semaphore while its call is in flight, and a
\* transient failure of the call is retried, after a backoff, until
\* MAX_RETRIES attempts have been made, before the failure reaches the turn.
C32_SynthesisRetriedThroughGate ==
    \A w \in Conns :
        pc[w] = "tts" =>
            /\ call[w].st \in {"opening", "streaming"} =>
                  /\ w \in Holders("tts")
                  /\ call[w].acquired = call[w].released + 1
                  /\ sem["tts"] < MAX_CONCURRENT_REQUESTS
            /\ (call[w].st = "fail" /\ IsTransient(call[w].last)) =>
                  /\ call[w].invoked = MAX_RETRIES
                  /\ Len(call[w].slept) = MAX_RETRIES - 1

\* what convert_speech_to_text, convert_text_to_speech (Surface) and
\* convert_text_to_speech_websocket (a bare raise) raise for a failure o of a
\* call of this kind
Raised(kind, o) == IF kind = "stream" THEN o ELSE Surface(o)

\* C33 (as claimed): the error with which a call through the gate fails tells
\* the caller whether the failure was transient: no failure of the other kind
\* reaches a caller of that function as the same error value.
C33_ErrorTellsTransient ==
    \A c \in Callers :
        call[c].st = "fail" =>
            /\ call[c].err = Raised(call[c].kind, call[c].last)
            /\ \A o \in Outcomes \ {"ok"} :
                  Raised(call[c].kind, o) = call[c].err
                     => (IsTransient(o) <=> IsTransient(call[c].last))

\* the handler of connection w has ended and its client is gone
Disconnected(w) == pc[w] = "done" /\ client[w] = "gone"

\* C34 (as claimed): once the handler has seen that the client is gone, no
\* send_json is called on the connection any more, by the handler or by a
\* background task that is still unfinished (what was sent, and whether a
\* send has raised, stay as they are); the client's leaving and the handler's
\* seeing it leave the remote call in progress and the unfinished tasks alone.
C34_NoSendAfterDisconnect ==
    [][\A w \in Conns :
          /\ Disconnected(w) => sent'[w] = sent[w]
          /\ (ClientDrops(w) \/ SeesDisconnect(w))
                => (call' = call /\ tasks' = tasks /\ sem' = sem)]_vars

\* an init message has set the difficulty of the session of connection w:
\* the greeting that the handler records when it does so is in the history
DifficultySet(w) ==
    LET s == sessions[w]
    IN  \E i \in DOMAIN s.conversation_history :
            s.conversation_history[i] = [speaker |-> "ai", text |-> InitMessage(s.character_id)]

\* C35 (as claimed): the difficulty of a session is always one of beginner,
\* intermediate and advanced, it is intermediate until an init message sets
\* it, and once an init message has set it no later step changes it.
C35_DifficultySetOnce ==
    /\ [](\A w \in Conns :
            ~sessions[w].absent =>
                /\ sessions[w].difficulty \in Difficulties
                /\ ~DifficultySet(w) => sessions[w].difficulty = "intermediate")
    /\ [][\A w \in Conns :
            (~sessions[w].absent /\ DifficultySet(w))
                => sessions'[w].difficulty = sessions[w].difficulty]_vars

\* the history entry e as a chat message
AsChatMessage(e) ==
    [role |-> IF e.speaker = "user" THEN "user" ELSE "assistant", content |-> e.text]

\* C36: while get_llm_response runs for a turn, the message list it was given
\* is the system prompt of the session, then one message for each entry of
\* the session's history, in the order of the history, the last of them being
\* the utterance of this turn as a user message: the entries before it are
\* the history as it stood before the turn, nothing is left out, reordered
\* or given twice.
C36_ModelSeesTranscriptOnce ==
    \A w \in Conns :
        pc[w] = "llm" =>
            LET s == sessions[w]
                h == s.conversation_history
                m == llmIn[w]
            IN  /\ Len(m) = Len(h) + 1
                /\ m[1] = [role |-> "system",
                           content |-> Prompt(s.character_id, s.difficulty, is_final_turn(s))]
                /\ \A i \in 1..Len(h) : m[i + 1] = AsChatMessage(h[i])
                /\ h[Len(h)].speaker = "user"
                /\ m[Len(m)].role = "user"
                /\ SubSeq(h, 1, Len(h) - 1) = prevHist[w]
                /\ Cardinality({i \in 1..Len(m) : m[i].content = h[Len(h)].text}) = 1

\* the model is asked for the reply to the third utterance of a session that
\* started with the greeting: the list has the prompt, five earlier messages
\* and the utterance
C36_Witness ==
    /\ pc[First] = "llm"
    /\ sessions[First].turn_count = 3
    /\ Len(llmIn[First]) = 7
    /\ llmIn[First][2].role = "assistant"
    /\ llmIn[First][7] = [role |-> "user", content |-> <<"u", "3">>]

\* the turn whose utterance the feedback item evaluates (0 if there is none)
TurnOfItem(w, item) ==
    LET u == UserEntries(sessions[w].conversation_history)
    IN  IF \E k \in 1..Len(u) : u[k].text = item.user_sentence
        THEN CHOOSE k \in 1..Len(u) : u[k].text = item.user_sentence
        ELSE 0

\* C37 (as claimed): feedback_items only grows, by appending; it never holds
\* more items than turn_count, every item evaluates a recorded utterance and
\* no utterance has two items; and the items are in the order of the
\* utterances they evaluate, in whatever order the evaluations finish.
C37_FeedbackInUtteranceOrder ==
    /\ [](\A w \in Conns :
            ~sessions[w].absent =>
                LET f == sessions[w].feedback_items
                IN  /\ Len(f) <= sessions[w].turn_count
                    /\ \A i \in 1..Len(f) : TurnOfItem(w, f[i]) # 0
                    /\ \A i, j \in 1..Len(f) :
                          i < j => TurnOfItem(w, f[i]) < TurnOfItem(w, f[j]))
    /\ [][\A w \in Conns :
            (~sessions[w].absent /\ ~sessions'[w].absent) =>
                /\ Len(sessions'[w].feedback_items) >= Len(sessions[w].feedback_items)
                /\ SubSeq(sessions'[w].feedback_items, 1, Len(sessions[w].feedback_items))
                      = sessions[w].feedback_items]_vars

\* the sessions whose row in the store has fingerprint fp and was completed
\* by reaching the turn limit
CompletedAtLimit(fp) ==
    {sid \in SessionIds :
        /\ ~durable[sid].absent
        /\ durable[sid].fingerprint = fp
        /\ durable[sid].is_completed
        /\ durable[sid].turn_count >= MAX_TURNS}

\* C38 (as claimed): under any interleaving of the connections, the store
\* never holds two sessions of one fingerprint that were completed by
\* reaching the turn limit: of two connections that present the same
\* fingerprint while neither has completed, at most one completes its turns.
C38_OneCompletedSessionPerFingerprint ==
    \A fp \in Fingerprints : Cardinality(CompletedAtLimit(fp)) <= 1

\* the handler of connection w has finished, in whatever way
HandlerFinished(w) == pc[w] \in {"done", "crashed"}

\* C39 (as claimed): when the handler of a connection for which a session was
\* created has finished, on whatever path (final turn, block at init, unknown
\* persona, disconnect, an error after the creation, a failure of
\* db.create_session included), the session is retired: the registry maps
\* the connection key no more and the session is marked completed.
C39_SessionRetiredOnEveryExit ==
    \A w \in Conns :
        (HandlerFinished(w) /\ ~sessions[w].absent) =>
            /\ w \notin wsmap
            /\ sessions[w].is_completed

\* the handler of connection w has taken an init message and streams the greeting
InitAccepted(w) == pc[w] = "init_tts"

\* connection w ended after its final turn: session_completed was sent, the
\* session is completed in the registry and in the store, and every token of
\* both semaphores is back
CompletedAndReleased(w) ==
    /\ pc[w] = "done" /\ term[w] = "final"
    /\ "session_completed" \in sent[w].notices
    /\ sent[w].completed.turn_count = MAX_TURNS
    /\ sessions[w].is_completed /\ sessions[w].turn_count = MAX_TURNS
    /\ w \notin wsmap
    /\ ~durable[w].absent /\ durable[w].is_completed
    /\ call[w] = NoCall
    /\ \A cap \in Capabilities : sem[cap] = MAX_CONCURRENT_REQUESTS

\* C40: when every call succeeds in the end and the client, once its init is
\* taken, sends MAX_TURNS audio messages that are heard, the connection
\* eventually ends after its final turn, with session_completed sent, the
\* session completed in memory and in the store and every token released,
\* and stays so (under weak fairness of the steps).
C40_EventuallyCompleted ==
    /\ InitAccepted(First) ~> CompletedAndReleased(First)
    /\ [](CompletedAndReleased(First) => []CompletedAndReleased(First))

\* the connection ended after ten turns, two transcription attempts having
\* failed and been retried on the way
C40_Witness ==
    /\ CompletedAndReleased(First)
    /\ faults >= 2

====
